---- MODULE Spec2Model ----
(***************************************************************************)
(* Model of the load-leveling queue / worker pool (ReleaseQueueProcessor,  *)
(* RepoQueueProcessor, CommitQueueProcessor: the three are the same code   *)
(* over different item types) and of the batch persister                   *)
(* (CommitUsecase.BatchCreate) of github-repo-crawler-KTPM.                *)
(***************************************************************************)
EXTENDS Integers, Sequences, FiniteSets, TLC

(***************************************************************************)
(* Bounds of the model.                                                    *)
(***************************************************************************)
NumWorkers == 2
MaxOffered == 3
MaxCap == 2
MaxBatch == 2
NumHashes == 2
NumReleases == 2
MaxRequests == 3
MaxRows == 2
\* batchSize := 50 of CreateInBatches and the stride 10 of the fallback loop,
\* scaled down so that a batch of MaxRequests spans chunks and strides.
ChunkSize == 2
ConcurrencyLimit == 2
\* batchSize := 10 of processCommits, scaled down likewise.
SmallBatchSize == 2
NumCbCallers == 3
MaxCbRequests == 4
\* gobreaker.Settings of NewCircuitBreaker, times in seconds.
CbMaxRequests == 3
Interval == 10
Timeout == 30
MinRequests == 3
NumPayloads == 2
MaxThreshold == 3
\* stabilityThreshold of NewCrawlingCoordinator.
DefaultThreshold == 3

Workers == 1..NumWorkers
\* The goroutine that calls BatchEnqueueReleases; every other producer's calls
\* of EnqueueRelease are the steps of Enqueue.
Caller == NumWorkers + 1
Producers == {Caller}
Free == 0

Min(a, b) == IF a < b THEN a ELSE b

Range(s) == {s[i] : i \in 1..Len(s)}

VARIABLES
    \* ---- ReleaseQueue ----
    items,            \* queue.items
    maxSize,          \* queue.maxSize
    metrics,          \* queue.metrics (EnqueueCount, DequeueCount, MaxQueueLength)
    processing,       \* queue.processing
    mutex,            \* queue.mutex: Free or the id of the goroutine holding it
    waiters,          \* goroutines parked in queue.cond.Wait()
    \* ---- ReleaseQueueProcessor ----
    batchSize,        \* p.batchSize
    cancelled,        \* p.ctx is done
    started,          \* Start() has run
    workerWg,         \* p.workerWg counter
    stopPc,           \* position of the goroutine calling Stop()
    pc,               \* position of every worker goroutine
    batch,            \* the batch a worker holds (local `releases`)
    failed,           \* processReleases saw BatchCreate return an error (until the decrement)
    \* ---- producers (callers of EnqueueRelease / BatchEnqueueReleases) ----
    prod,             \* per producer: position, requests, loop index, local `enqueued`
    nextId,           \* next fresh request
    \* ---- observation ----
    enqOrder,         \* requests accepted, in acceptance order
    deqOrder,         \* requests dequeued, in dequeue order
    handed,           \* requests handed to BatchCreate
    handedCount,      \* number of requests handed to BatchCreate, over all calls
    rejected,         \* requests for which EnqueueRelease returned false
    \* ---- CommitUsecase.BatchCreate and the commits table ----
    store,            \* rows of the commits table: how many per (hash, release)
    call,             \* the running call of BatchCreate: position and locals
    prev,             \* the last call that returned: its requests and outcome
    proc,             \* the running processCommits: position and locals
    \* ---- CircuitBreakerWrapper ----
    cb,               \* cbw.cb: state, counts and time left to its expiry
    cbCall,           \* per caller of Execute: position, generation, result
    recorded,         \* outcomes recorded in the current Closed window
    \* ---- CrawlingCoordinator ----
    cache,            \* repoCache, releaseCache, commitCache
    noChangeCount,    \* repoNoChangeCount, releaseNoChangeCount, commitNoChangeCount
    paused,           \* repoPaused, releasePaused, commitPaused
    stabilityThreshold,
    cyc,              \* the running CrawlAll: position and locals
    loop,             \* startCircuitBreakerCoordinator: position, ticker, stopChan
    obs               \* calls per stage in the cycle, runs of no-change responses,
                      \* ForceReactivateAll was the last to write the caches,
                      \* what the last repo fetch since then returned

qvars == <<items, maxSize, metrics, processing, mutex, waiters, batchSize,
           cancelled, started, workerWg, stopPc, pc, batch, failed, prod,
           nextId, enqOrder, deqOrder, handed, handedCount, rejected>>

pvars == <<store, call, prev, proc>>

bvars == <<cb, cbCall, recorded>>

kvars == <<cache, noChangeCount, paused, stabilityThreshold, cyc, loop, obs>>

vars == <<qvars, pvars, bvars, kvars>>

IdleProd == [pc |-> "idle", reqs |-> <<>>, idx |-> 0, enqueued |-> 0, ret |-> 0]

(***************************************************************************)
(* NewReleaseQueueProcessor: an empty queue, a live context, no worker.    *)
(* maxSize and batchSize are the constructor's arguments; batchSize comes  *)
(* from QueueConfig.BatchSize.Max, which NewQueueConfig keeps positive.    *)
(***************************************************************************)
NewReleaseQueueProcessor ==
    /\ items = <<>>
    /\ maxSize \in 0..MaxCap
    /\ batchSize \in 1..MaxBatch
    /\ metrics = [EnqueueCount |-> 0, DequeueCount |-> 0, MaxQueueLength |-> 0]
    /\ processing = 0
    /\ mutex = Free
    /\ waiters = {}
    /\ cancelled = FALSE
    /\ started = FALSE
    /\ workerWg = 0
    /\ stopPc = "idle"
    /\ pc = [w \in Workers |-> "new"]
    /\ batch = [w \in Workers |-> <<>>]
    /\ failed = [w \in Workers |-> FALSE]
    /\ prod = [p \in Producers |-> IdleProd]
    /\ nextId = 1
    /\ enqOrder = <<>>
    /\ deqOrder = <<>>
    /\ handed = {}
    /\ handedCount = 0
    /\ rejected = {}

(***************************************************************************)
(* The commits table and CommitUsecase.BatchCreate.  A request is a hash   *)
(* and a release id (the message plays no part in what is written).        *)
(***************************************************************************)
Hashes == 1..NumHashes
Releases == 1..NumReleases
Requests == [hash : Hashes, rel : Releases]
Batches == UNION {[1..n -> Requests] : n \in 0..MaxRequests}

NoCall == [pc |-> "idle", requests |-> <<>>, newRequests |-> <<>>,
           before |-> [k \in Requests |-> 0], txRows |-> <<>>,
           txFailed |-> FALSE, txDone |-> 0, fallback |-> FALSE,
           pending |-> {}, running |-> {}, created |-> {}, waitLoop |-> FALSE,
           attempts |-> <<>>, inserted |-> {}, successCount |-> 0, errorCount |-> 0,
           dbErr |-> FALSE, writeFailed |-> FALSE, readFailed |-> FALSE,
           err |-> FALSE, responses |-> 0, written |-> 0]

NoPrev == [valid |-> FALSE, requests |-> <<>>, wrote |-> FALSE]

NewCommitUsecase ==
    /\ store = [k \in Requests |-> 0]
    /\ call = NoCall
    /\ prev = NoPrev

CbCallers == 1..NumCbCallers

NoCounts == [Requests |-> 0, TotalSuccesses |-> 0, TotalFailures |-> 0,
             ConsecutiveSuccesses |-> 0, ConsecutiveFailures |-> 0]

\* gobreaker.NewCircuitBreaker(settings): Closed, counts cleared, the first
\* interval running.
NewCircuitBreaker ==
    /\ cb = [state |-> "closed", counts |-> NoCounts, hasExpiry |-> TRUE,
             left |-> Interval]
    /\ cbCall = [c \in CbCallers |-> [pc |-> "idle", stale |-> FALSE, ret |-> "none"]]
    /\ recorded = <<>>

\* A decoded JSON payload; Nil is what a JSON null decodes to.
Nil == 0
Payloads == 0..NumPayloads
\* The error result of a stage call, apart from every payload.
Err == 0 - 1
Stages == {"repo", "release", "commit"}

NoCycle == [stage |-> "none", at |-> "none", repoChanged |-> FALSE,
            releaseChanged |-> FALSE, data |-> Nil, prevData |-> Nil,
            sawNil |-> [s \in Stages |-> FALSE], afterReactivate |-> FALSE,
            failed |-> [s \in Stages |-> FALSE]]

NoCalls == [s \in Stages |-> 0]

\* NewCrawlingCoordinator, and startCircuitBreakerCoordinator about to run.
NewCrawlingCoordinator ==
    /\ cache = [s \in Stages |-> Nil]
    /\ noChangeCount = [s \in Stages |-> 0]
    /\ paused = [s \in Stages |-> FALSE]
    /\ stabilityThreshold = DefaultThreshold
    /\ cyc = NoCycle
    /\ loop = [pc |-> "start", tickPending |-> FALSE, stopped |-> FALSE]
    /\ obs = [calls |-> NoCalls, run |-> [s \in Stages |-> 0],
              reactivated |-> FALSE, reactivatedSince |-> FALSE,
              thresholdSet |-> FALSE,
              repoFetched |-> "no", failedBefore |-> "none",
              begun |-> [main |-> FALSE, periodic |-> FALSE]]

\* No call of processCommits is running.
NoProc == [pc |-> "idle", commits |-> <<>>, i |-> 0, attempted |-> <<>>,
           errs |-> <<>>]

Init ==
    /\ NewReleaseQueueProcessor
    /\ NewCommitUsecase
    /\ proc = NoProc
    /\ NewCircuitBreaker
    /\ NewCrawlingCoordinator

(***************************************************************************)
(* Start: workerWg.Add(1) and one goroutine per worker.                    *)
(***************************************************************************)
Start ==
    /\ ~started
    /\ started' = TRUE
    /\ workerWg' = workerWg + NumWorkers
    /\ pc' = [w \in Workers |-> "loop"]
    /\ UNCHANGED <<pvars, bvars, kvars, items, maxSize, metrics, processing, mutex, waiters,
                   batchSize, cancelled, stopPc, batch, failed, prod, nextId,
                   enqOrder, deqOrder, handed, handedCount, rejected>>

(***************************************************************************)
(* EnqueueRelease, as a function of the queue it finds: the result, the    *)
(* new items and metrics, and whether cond.Signal() is called.             *)
(***************************************************************************)
EnqueueRelease_OffByOne(request) ==
    IF maxSize > 0 /\ Len(items) > maxSize
    THEN [ok |-> FALSE, items |-> items, metrics |-> metrics, signal |-> FALSE]
    ELSE LET appended == Append(items, request)
         IN  [ok |-> TRUE,
              items |-> appended,
              metrics |-> [metrics EXCEPT
                  !.EnqueueCount = @ + 1,
                  !.MaxQueueLength = IF Len(appended) > @ THEN Len(appended) ELSE @],
              signal |-> TRUE]

EnqueueRelease_CountsRejected(request) ==
    IF maxSize > 0 /\ Len(items) >= maxSize
    THEN [ok |-> FALSE, items |-> items,
          metrics |-> [metrics EXCEPT !.EnqueueCount = @ + 1], signal |-> FALSE]
    ELSE LET appended == Append(items, request)
         IN  [ok |-> TRUE,
              items |-> appended,
              metrics |-> [metrics EXCEPT
                  !.EnqueueCount = @ + 1,
                  !.MaxQueueLength = IF Len(appended) > @ THEN Len(appended) ELSE @],
              signal |-> TRUE]

EnqueueRelease_NoSignal(request) ==
    IF maxSize > 0 /\ Len(items) >= maxSize
    THEN [ok |-> FALSE, items |-> items, metrics |-> metrics, signal |-> FALSE]
    ELSE LET appended == Append(items, request)
         IN  [ok |-> TRUE,
              items |-> appended,
              metrics |-> [metrics EXCEPT
                  !.EnqueueCount = @ + 1,
                  !.MaxQueueLength = IF Len(appended) > @ THEN Len(appended) ELSE @],
              signal |-> FALSE]

EnqueueRelease(request) ==
    IF maxSize > 0 /\ Len(items) >= maxSize
    THEN [ok |-> FALSE, items |-> items, metrics |-> metrics, signal |-> FALSE]
    ELSE LET appended == Append(items, request)
         IN  [ok |-> TRUE,
              items |-> appended,
              metrics |-> [metrics EXCEPT
                  !.EnqueueCount = @ + 1,
                  !.MaxQueueLength = IF Len(appended) > @ THEN Len(appended) ELSE @],
              signal |-> TRUE]

(***************************************************************************)
(* One call of EnqueueRelease by `who`.  The body runs from mutex.Lock()   *)
(* to the deferred Unlock() without blocking, so it is one step that needs *)
(* the mutex free.  cond.Signal() moves one parked worker, if there is     *)
(* one, out of the wait set; that worker still has to reacquire the mutex. *)
(***************************************************************************)
EnqueueCall(who, request) ==
    LET r == EnqueueRelease(request)
    IN  /\ mutex = Free
        /\ items' = r.items
        /\ metrics' = r.metrics
        /\ IF r.signal /\ waiters # {}
           THEN \E wk \in waiters :
                    /\ waiters' = waiters \ {wk}
                    /\ pc' = [pc EXCEPT ![wk] = "woken"]
           ELSE UNCHANGED <<pvars, bvars, kvars, waiters, pc>>
        /\ enqOrder' = IF r.ok THEN Append(enqOrder, request) ELSE enqOrder
        /\ rejected' = IF r.ok THEN rejected ELSE rejected \cup {request}
        /\ UNCHANGED <<pvars, bvars, kvars, maxSize, processing, mutex, batchSize, cancelled,
                       started, workerWg, stopPc, batch, failed,
                       deqOrder, handed, handedCount>>

\* A producer calls EnqueueRelease with a fresh request.
Enqueue ==
    /\ nextId <= MaxOffered
    /\ EnqueueCall(0, nextId)
    /\ nextId' = nextId + 1
    /\ UNCHANGED prod

(***************************************************************************)
(* BatchEnqueueReleases(requests): the call, one loop iteration per        *)
(* request, and the return of the local counter `enqueued`.                *)
(***************************************************************************)
BatchEnqueueCall(p) ==
    /\ prod[p].pc \in {"idle", "done"}
    /\ \E k \in 0..(MaxOffered + 1 - nextId) :
          /\ prod' = [prod EXCEPT ![p] =
                 [pc |-> "loop", reqs |-> [i \in 1..k |-> nextId + i - 1],
                  idx |-> 1, enqueued |-> 0, ret |-> 0]]
          /\ nextId' = nextId + k
    /\ UNCHANGED <<pvars, bvars, kvars, items, maxSize, metrics, processing, mutex, waiters,
                   batchSize, cancelled, started, workerWg, stopPc, pc, batch,
                   failed, enqOrder, deqOrder, handed, handedCount, rejected>>

\* (a loop that leaves at the first rejected request)
BatchEnqueueIter_Break(p) ==
    /\ prod[p].pc = "loop"
    /\ prod[p].idx <= Len(prod[p].reqs)
    /\ EnqueueCall(p, prod[p].reqs[prod[p].idx])
    /\ prod' = [prod EXCEPT
           ![p].idx = IF EnqueueRelease(prod[p].reqs[prod[p].idx]).ok
                      THEN @ + 1 ELSE Len(prod[p].reqs) + 1,
           ![p].enqueued = IF EnqueueRelease(prod[p].reqs[prod[p].idx]).ok
                           THEN @ + 1 ELSE @]
    /\ UNCHANGED nextId

BatchEnqueueIter(p) ==
    /\ prod[p].pc = "loop"
    /\ prod[p].idx <= Len(prod[p].reqs)
    /\ EnqueueCall(p, prod[p].reqs[prod[p].idx])
    /\ prod' = [prod EXCEPT
           ![p].idx = @ + 1,
           ![p].enqueued = IF EnqueueRelease(prod[p].reqs[prod[p].idx]).ok
                           THEN @ + 1 ELSE @]
    /\ UNCHANGED nextId

BatchEnqueueReturn(p) ==
    /\ prod[p].pc = "loop"
    /\ prod[p].idx > Len(prod[p].reqs)
    /\ prod' = [prod EXCEPT ![p].pc = "done", ![p].ret = prod[p].enqueued]
    /\ UNCHANGED <<pvars, bvars, kvars, items, maxSize, metrics, processing, mutex, waiters,
                   batchSize, cancelled, started, workerWg, stopPc, pc, batch,
                   failed, nextId, enqOrder, deqOrder, handed, handedCount, rejected>>

(***************************************************************************)
(* worker(workerID): the top of the for loop, `select` on p.ctx.Done().    *)
(***************************************************************************)
WorkerSelect(w) ==
    /\ pc[w] = "loop"
    /\ IF cancelled
       THEN /\ pc' = [pc EXCEPT ![w] = "exited"]
            /\ workerWg' = workerWg - 1           \* deferred p.workerWg.Done()
       ELSE /\ pc' = [pc EXCEPT ![w] = "lock"]   \* calls dequeueReleases
            /\ UNCHANGED workerWg
    /\ UNCHANGED <<pvars, bvars, kvars, items, maxSize, metrics, processing, mutex, waiters,
                   batchSize, cancelled, started, stopPc, batch, failed, prod,
                   nextId, enqOrder, deqOrder, handed, handedCount, rejected>>

\* sync.Mutex.Lock(): at the entry of dequeueReleases ("lock"), on return
\* from cond.Wait() ("woken"), and before the decrement ("declock").
AfterLock(at) ==
    CASE at = "lock" -> "check"
      [] at = "woken" -> "recheck"
      [] at = "declock" -> "dec"

WorkerLock(w) ==
    /\ pc[w] \in {"lock", "woken", "declock"}
    /\ mutex = Free
    /\ mutex' = w
    /\ pc' = [pc EXCEPT ![w] = AfterLock(pc[w])]
    /\ UNCHANGED <<pvars, bvars, kvars, items, maxSize, metrics, processing, waiters, batchSize,
                   cancelled, started, workerWg, stopPc, batch, failed, prod,
                   nextId, enqOrder, deqOrder, handed, handedCount, rejected>>

(***************************************************************************)
(* dequeueReleases, `for len(p.queue.items) == 0`: with the context done   *)
(* it returns nil (the deferred Unlock releases the mutex; the worker      *)
(* sleeps 100ms and continues at the top of its loop); otherwise           *)
(* cond.Wait() parks the goroutine and releases the mutex.                 *)
(***************************************************************************)
WorkerWait(w) ==
    /\ pc[w] = "check"
    /\ mutex = w
    /\ Len(items) = 0
    /\ IF cancelled
       THEN /\ pc' = [pc EXCEPT ![w] = "loop"]
            /\ UNCHANGED waiters
       ELSE /\ pc' = [pc EXCEPT ![w] = "waiting"]
            /\ waiters' = waiters \cup {w}
    /\ mutex' = Free
    /\ UNCHANGED <<pvars, bvars, kvars, items, maxSize, metrics, processing, batchSize, cancelled,
                   started, workerWg, stopPc, batch, failed, prod, nextId,
                   enqOrder, deqOrder, handed, handedCount, rejected>>

\* (a wake-up that returns to the worker without looking at the queue)
WorkerRecheck_ReturnsEmpty(w) ==
    /\ pc[w] = "recheck"
    /\ mutex = w
    /\ pc' = [pc EXCEPT ![w] = "loop"]
    /\ mutex' = Free
    /\ UNCHANGED <<pvars, bvars, kvars, items, maxSize, metrics, processing, waiters, batchSize,
                   cancelled, started, workerWg, stopPc, batch, failed, prod,
                   nextId, enqOrder, deqOrder, handed, handedCount, rejected>>

\* After cond.Wait() has returned with the mutex held: the second select.
WorkerRecheck(w) ==
    /\ pc[w] = "recheck"
    /\ mutex = w
    /\ IF cancelled
       THEN /\ pc' = [pc EXCEPT ![w] = "loop"]
            /\ mutex' = Free
       ELSE /\ pc' = [pc EXCEPT ![w] = "check"]
            /\ UNCHANGED mutex
    /\ UNCHANGED <<pvars, bvars, kvars, items, maxSize, metrics, processing, waiters, batchSize,
                   cancelled, started, workerWg, stopPc, batch, failed, prod,
                   nextId, enqOrder, deqOrder, handed, handedCount, rejected>>

(***************************************************************************)
(* dequeueReleases past the wait loop: the batch taken and what is left.   *)
(***************************************************************************)
TakeBatch_Newest(maxCount) ==
    LET count == IF maxCount > Len(items) THEN Len(items) ELSE maxCount
    IN  [count |-> count,
         taken |-> SubSeq(items, Len(items) - count + 1, Len(items)),
         rest |-> SubSeq(items, 1, Len(items) - count)]

\* (a batch whose last request is left at the head of the queue as well)
TakeBatch_Overlap(maxCount) ==
    LET count == IF maxCount > Len(items) THEN Len(items) ELSE maxCount
    IN  [count |-> count,
         taken |-> SubSeq(items, 1, count),
         rest |-> SubSeq(items, count, Len(items))]

TakeBatch(maxCount) ==
    LET count == IF maxCount > Len(items) THEN Len(items) ELSE maxCount
    IN  [count |-> count,
         taken |-> SubSeq(items, 1, count),
         rest |-> SubSeq(items, count + 1, Len(items))]

DequeueUnlock_Held(w) == w

\* The mutex after dequeueReleases has returned (defer Unlock).
DequeueUnlock(w) == Free

WorkerDequeue(w) ==
    /\ pc[w] = "check"
    /\ mutex = w
    /\ Len(items) # 0
    /\ LET t == TakeBatch(batchSize)
       IN  /\ items' = t.rest
           /\ metrics' = [metrics EXCEPT !.DequeueCount = @ + t.count]
           /\ processing' = processing + t.count
           /\ batch' = [batch EXCEPT ![w] = t.taken]
           /\ deqOrder' = deqOrder \o t.taken
    /\ mutex' = DequeueUnlock(w)
    /\ pc' = [pc EXCEPT ![w] = "process"]
    /\ UNCHANGED <<pvars, bvars, kvars, maxSize, waiters, batchSize, cancelled, started, workerWg,
                   stopPc, failed, prod, nextId, enqOrder, handed, handedCount, rejected>>

(***************************************************************************)
(* processReleases: BatchCreate is handed the batch and returns, with or   *)
(* without an error; either way processReleases returns to the worker,     *)
(* which goes on to the decrement.                                         *)
(***************************************************************************)
AfterProcess_SkipOnError(err) == IF err THEN "loop" ELSE "declock"

AfterProcess(err) == "declock"

WorkerProcess(w) ==
    /\ pc[w] = "process"
    /\ \E err \in BOOLEAN :
          /\ pc' = [pc EXCEPT ![w] = AfterProcess(err)]
          /\ failed' = [failed EXCEPT ![w] = err]
    /\ handed' = handed \cup Range(batch[w])
    /\ handedCount' = handedCount + Len(batch[w])
    /\ UNCHANGED <<pvars, bvars, kvars, items, maxSize, metrics, processing, mutex, waiters,
                   batchSize, cancelled, started, workerWg, stopPc, batch,
                   prod, nextId, enqOrder, deqOrder, rejected>>

\* (a decrement by one per batch instead of len(releases))
WorkerDecrement_ByOne(w) ==
    /\ pc[w] = "dec"
    /\ mutex = w
    /\ processing' = processing - 1
    /\ batch' = [batch EXCEPT ![w] = <<>>]
    /\ failed' = [failed EXCEPT ![w] = FALSE]
    /\ mutex' = Free
    /\ pc' = [pc EXCEPT ![w] = "loop"]
    /\ UNCHANGED <<pvars, bvars, kvars, items, maxSize, metrics, waiters, batchSize, cancelled,
                   started, workerWg, stopPc, prod, nextId, enqOrder,
                   deqOrder, handed, handedCount, rejected>>

\* p.queue.processing -= len(releases), between Lock() and Unlock().
WorkerDecrement(w) ==
    /\ pc[w] = "dec"
    /\ mutex = w
    /\ processing' = processing - Len(batch[w])
    /\ batch' = [batch EXCEPT ![w] = <<>>]
    /\ failed' = [failed EXCEPT ![w] = FALSE]
    /\ mutex' = Free
    /\ pc' = [pc EXCEPT ![w] = "loop"]
    /\ UNCHANGED <<pvars, bvars, kvars, items, maxSize, metrics, waiters, batchSize, cancelled,
                   started, workerWg, stopPc, prod, nextId, enqOrder,
                   deqOrder, handed, handedCount, rejected>>

(***************************************************************************)
(* Stop: p.cancel(), then p.workerWg.Wait().  cancel() closes ctx.Done();  *)
(* it does not touch queue.cond.                                           *)
(***************************************************************************)
CancelWakes == {}

StopCancel ==
    /\ stopPc = "idle"
    /\ cancelled' = TRUE
    /\ stopPc' = "waiting"
    /\ waiters' = waiters \ CancelWakes
    /\ pc' = [w \in Workers |-> IF w \in CancelWakes THEN "woken" ELSE pc[w]]
    /\ UNCHANGED <<pvars, bvars, kvars, items, maxSize, metrics, processing, mutex, batchSize,
                   started, workerWg, batch, failed, prod, nextId, enqOrder,
                   deqOrder, handed, handedCount, rejected>>

StopReturn ==
    /\ stopPc = "waiting"
    /\ workerWg = 0
    /\ stopPc' = "returned"
    /\ UNCHANGED <<pvars, bvars, kvars, items, maxSize, metrics, processing, mutex, waiters,
                   batchSize, cancelled, started, workerWg, pc, batch, failed,
                   prod, nextId, enqOrder, deqOrder, handed, handedCount, rejected>>

WorkerStep(w) ==
    \/ WorkerSelect(w)
    \/ WorkerLock(w)
    \/ WorkerWait(w)
    \/ WorkerRecheck(w)
    \/ WorkerDequeue(w)
    \/ WorkerProcess(w)
    \/ WorkerDecrement(w)

Next ==
    \/ Start
    \/ Enqueue
    \/ \E w \in Workers : WorkerSelect(w)
    \/ \E w \in Workers : WorkerLock(w)
    \/ \E w \in Workers : WorkerWait(w)
    \/ \E w \in Workers : WorkerRecheck(w)
    \/ \E w \in Workers : WorkerDequeue(w)
    \/ \E w \in Workers : WorkerProcess(w)
    \/ \E w \in Workers : WorkerDecrement(w)
    \/ StopCancel
    \/ StopReturn

Spec == Init /\ [][Next]_vars

\* The pool together with one caller of BatchEnqueueReleases.
BatchNext ==
    \/ Next
    \/ \E p \in Producers : BatchEnqueueCall(p)
    \/ \E p \in Producers : BatchEnqueueIter(p)
    \/ \E p \in Producers : BatchEnqueueReturn(p)

BatchSpec == Init /\ [][BatchNext]_vars

(***************************************************************************)
(* Scheduling: the Go scheduler runs every runnable goroutine, and         *)
(* sync.Mutex hands the lock over to a starving waiter, so a goroutine     *)
(* that asks for the mutex again and again gets it.  Producers and the     *)
(* caller of Stop are the environment: nothing obliges them to act, except *)
(* that Stop, once it has cancelled, returns when the wait group allows.   *)
(***************************************************************************)
Fairness ==
    /\ \A w \in Workers : WF_vars(WorkerSelect(w) \/ WorkerWait(w) \/ WorkerRecheck(w)
                                  \/ WorkerDequeue(w)
                                  \/ WorkerProcess(w) \/ WorkerDecrement(w))
    /\ \A w \in Workers : SF_vars(WorkerLock(w))
    /\ WF_vars(StopReturn)

FairSpec == Init /\ [][Next]_vars /\ Fairness

(***************************************************************************)
(* CommitUsecase.BatchCreate(ctx, requests).                               *)
(***************************************************************************)
Count(requests, k) == Cardinality({i \in 1..Len(requests) : requests[i] = k})

AddRows(rows, requests) == [k \in Requests |-> rows[k] + Count(requests, k)]

\* len(requests) == 0 returns at once; otherwise a transaction is begun.
\* The previous call's requests and outcome are kept when this call repeats
\* its batch, and the store as the call found it.
BatchCreateCall(requests) ==
    /\ call.pc \in {"idle", "done"}
    /\ \A k \in Requests : store[k] + Count(requests, k) <= MaxRows
    /\ prev' = IF call.pc = "done" /\ requests = call.requests
               THEN [valid |-> TRUE, requests |-> call.requests,
                     wrote |-> /\ ~call.err
                               /\ call.errorCount = 0
                               /\ call.written = Len(call.newRequests)]
               ELSE NoPrev
    /\ call' = IF Len(requests) = 0
               THEN [NoCall EXCEPT !.pc = "done", !.before = store]
               ELSE [NoCall EXCEPT !.pc = "find", !.requests = requests,
                                   !.before = store]
    /\ UNCHANGED <<qvars, bvars, kvars, proc, store>>

\* tx.Where("hash IN ? AND release_id = ?", hashes, requests[0].ReleaseID)
\* .Find(&existingCommits), and existingMap built from the rows found.
ExistingMap(requests) ==
    {k.hash : k \in {r \in Requests :
                        /\ store[r] > 0
                        /\ \E i \in 1..Len(requests) : requests[i].hash = r.hash
                        /\ r.rel = requests[1].rel}}

\* newRequests: the requests whose hash is not in existingMap.
FilterNew(requests, existingMap) ==
    SelectSeq(requests, LAMBDA r : r.hash \notin existingMap)

\* The existence query (an error of it is logged and ignored, leaving
\* existingCommits empty), the filter, and the return when nothing is new.
FindExisting ==
    /\ call.pc = "find"
    /\ \E findErr \in BOOLEAN :
          LET existingMap == IF findErr THEN {} ELSE ExistingMap(call.requests)
              newRequests == FilterNew(call.requests, existingMap)
          IN  call' = [call EXCEPT
                  !.pc = IF Len(newRequests) = 0 THEN "done" ELSE "insert",
                  !.newRequests = newRequests,
                  !.dbErr = findErr]
    /\ UNCHANGED <<qvars, bvars, kvars, proc, store, prev>>

\* What a rolled-back transaction leaves visible of the rows inserted
\* through it, with a variant that keeps them.
Rollback_KeepsRows(txRows) == txRows

Rollback(txRows) == <<>>

\* The next chunk of at most ChunkSize records of commits.
NextChunk(commits, done) ==
    SubSeq(commits, done + 1, Min(done + ChunkSize, Len(commits)))

\* tx.CreateInBatches(commits, batchSize), one chunk per step, each inserted
\* through tx. On an error of a chunk the transaction is rolled back and the
\* individual inserts are started.
CreateInBatches ==
    /\ call.pc = "insert"
    /\ \E ok \in BOOLEAN :
          IF ok
          THEN LET txRows == call.txRows \o NextChunk(call.newRequests, Len(call.txRows))
               IN  /\ call' = [call EXCEPT
                          !.pc = IF Len(txRows) = Len(call.newRequests)
                                 THEN "commit" ELSE "insert",
                          !.txRows = txRows]
                   /\ store' = store
          ELSE /\ call' = [call EXCEPT !.pc = "fallback",
                                       !.txRows = <<>>,
                                       !.txFailed = TRUE,
                                       !.txDone = Len(call.txRows),
                                       !.fallback = TRUE,
                                       !.pending = 1..Len(call.newRequests),
                                       !.attempts = [i \in 1..Len(call.newRequests) |-> 0],
                                       !.writeFailed = TRUE,
                                       !.dbErr = TRUE]
               /\ store' = AddRows(store, Rollback(call.txRows))
    /\ UNCHANGED <<qvars, bvars, kvars, proc, prev>>

\* tx.Commit(): the rows become visible, or the error is returned and the
\* deferred Rollback drops them.
TxCommit ==
    /\ call.pc = "commit"
    /\ \E ok \in BOOLEAN :
          IF ok
          THEN /\ store' = AddRows(store, call.txRows)
               /\ call' = [call EXCEPT !.pc = "done",
                                       !.txRows = <<>>,
                                       !.written = Len(call.txRows),
                                       !.responses = Len(call.newRequests)]
          ELSE /\ store' = AddRows(store, Rollback(call.txRows))
               /\ call' = [call EXCEPT !.pc = "done",
                                       !.txRows = <<>>,
                                       !.txFailed = TRUE,
                                       !.txDone = Len(call.txRows),
                                       !.err = TRUE,
                                       !.writeFailed = TRUE,
                                       !.dbErr = TRUE]
    /\ UNCHANGED <<qvars, bvars, kvars, proc, prev>>

\* wg's counter: the goroutines started and not yet Done.
WgCount == Cardinality(call.running) + Cardinality(call.created)

\* (a loop that never waits inside)
FallbackSpawn_NoWait ==
    /\ call.pc = "fallback"
    /\ ~call.waitLoop
    /\ call.pending # {}
    /\ LET i == CHOOSE j \in call.pending : \A l \in call.pending : j <= l
       IN  call' = [call EXCEPT !.pending = @ \ {i},
                                !.running = @ \cup {i},
                                !.waitLoop = FALSE]
    /\ UNCHANGED <<qvars, bvars, kvars, proc, store, prev>>

\* One iteration of "for i, req := range newRequests": wg.Add(1), go func,
\* and wg.Wait() inside the loop when i%ConcurrencyLimit == 0 (i from 0).
FallbackSpawn ==
    /\ call.pc = "fallback"
    /\ ~call.waitLoop
    /\ call.pending # {}
    /\ LET i == CHOOSE j \in call.pending : \A l \in call.pending : j <= l
       IN  call' = [call EXCEPT !.pending = @ \ {i},
                                !.running = @ \cup {i},
                                !.waitLoop = ((i - 1) % ConcurrencyLimit = 0)]
    /\ UNCHANGED <<qvars, bvars, kvars, proc, store, prev>>

\* wg.Wait() inside the loop returns when every goroutine started is Done.
FallbackWait ==
    /\ call.pc = "fallback"
    /\ call.waitLoop
    /\ WgCount = 0
    /\ call' = [call EXCEPT !.waitLoop = FALSE]
    /\ UNCHANGED <<qvars, bvars, kvars, proc, store, prev>>

\* One goroutine of the individual inserts: c.DB.Create(&commit), outside
\* any transaction.
FallbackInsert(i) ==
    /\ call.pc = "fallback"
    /\ i \in call.running
    /\ \E ok \in BOOLEAN :
          /\ store' = IF ok THEN [store EXCEPT ![call.newRequests[i]] = @ + 1]
                      ELSE store
          /\ call' = [call EXCEPT !.running = @ \ {i},
                                  !.created = @ \cup {<<i, ok>>},
                                  !.attempts[i] = @ + 1,
                                  !.inserted = IF ok THEN @ \cup {i} ELSE @,
                                  !.written = IF ok THEN @ + 1 ELSE @,
                                  !.writeFailed = @ \/ ~ok]
    /\ UNCHANGED <<qvars, bvars, kvars, proc, prev>>

\* The counters after one insert's outcome, with a variant that leaves a
\* failed insert uncounted.
CountOutcome_DropsErrors(ok, successCount, errorCount) ==
    IF ok THEN <<successCount + 1, errorCount>> ELSE <<successCount, errorCount>>

CountOutcome(ok, successCount, errorCount) ==
    IF ok THEN <<successCount + 1, errorCount>> ELSE <<successCount, errorCount + 1>>

\* The goroutine's mutex.Lock(), successCount++ or errorCount++, Unlock()
\* and the deferred wg.Done().
FallbackCount(i) ==
    /\ call.pc = "fallback"
    /\ \E ok \in BOOLEAN :
          /\ <<i, ok>> \in call.created
          /\ LET counts == CountOutcome(ok, call.successCount, call.errorCount)
             IN  call' = [call EXCEPT !.created = @ \ {<<i, ok>>},
                                      !.successCount = counts[1],
                                      !.errorCount = counts[2]]
    /\ UNCHANGED <<qvars, bvars, kvars, proc, store, prev>>

RECURSIVE SumRows(_, _)
SumRows(rows, keys) ==
    IF keys = {} THEN 0
    ELSE LET k == CHOOSE x \in keys : TRUE
         IN  rows[k] + SumRows(rows, keys \ {k})

\* After the last wg.Wait(): all commits of newRequests[0].ReleaseID are read
\* back and returned; an error of that query is returned.
FallbackReturn ==
    /\ call.pc = "fallback"
    /\ call.pending = {}
    /\ ~call.waitLoop
    /\ WgCount = 0
    /\ \E findErr \in BOOLEAN :
          call' = IF findErr
                  THEN [call EXCEPT !.pc = "done", !.err = TRUE, !.readFailed = TRUE]
                  ELSE [call EXCEPT !.pc = "done",
                            !.responses = SumRows(store,
                                {k \in Requests : k.rel = call.newRequests[1].rel})]
    /\ UNCHANGED <<qvars, bvars, kvars, proc, store, prev>>

PersistNext ==
    \/ \E requests \in Batches : BatchCreateCall(requests)
    \/ FindExisting
    \/ CreateInBatches
    \/ TxCommit
    \/ FallbackSpawn
    \/ FallbackWait
    \/ \E i \in 1..MaxRequests : FallbackInsert(i)
    \/ \E i \in 1..MaxRequests : FallbackCount(i)
    \/ FallbackReturn

(***************************************************************************)
(* CommitQueueProcessor.processCommits(workerID, commits): BatchCreate is  *)
(* called with the whole batch and, when it returns an error, with one     *)
(* smaller batch after the other.  What BatchCreate returns is the         *)
(* caller's input here: an error or none.                                  *)
(***************************************************************************)
\* processCommits is called: an empty batch returns at once; otherwise
\* BatchCreate(commits) returns without an error, and processCommits
\* returns, or with one, and the loop over the smaller batches begins.
ProcessCommits(commits) ==
    /\ proc.pc \in {"idle", "done"}
    /\ \E err \in BOOLEAN :
          proc' = IF Len(commits) = 0 THEN [NoProc EXCEPT !.pc = "done"]
                  ELSE [NoProc EXCEPT !.pc = IF err THEN "split" ELSE "done",
                                      !.commits = commits]
    /\ UNCHANGED <<qvars, bvars, kvars, store, call, prev>>

\* smallBatch := commits[i:end] with end = min(i + batchSize, len(commits)).
SmallBatch(commits, i) ==
    SubSeq(commits, i + 1, Min(i + SmallBatchSize, Len(commits)))

\* (a loop that leaves at the first smaller batch that fails)
ProcessSmallBatch_StopsOnError ==
    /\ proc.pc = "split"
    /\ proc.i < Len(proc.commits)
    /\ \E err \in BOOLEAN :
          proc' = [proc EXCEPT
              !.attempted = Append(@, SmallBatch(proc.commits, proc.i)),
              !.errs = Append(@, err),
              !.i = IF err THEN Len(proc.commits) ELSE @ + SmallBatchSize]
    /\ UNCHANGED <<qvars, bvars, kvars, store, call, prev>>

\* One turn of "for i := 0; i < len(commits); i += batchSize": BatchCreate
\* is called with the smaller batch; its error is logged.
ProcessSmallBatch ==
    /\ proc.pc = "split"
    /\ proc.i < Len(proc.commits)
    /\ \E err \in BOOLEAN :
          proc' = [proc EXCEPT
              !.attempted = Append(@, SmallBatch(proc.commits, proc.i)),
              !.errs = Append(@, err),
              !.i = @ + SmallBatchSize]
    /\ UNCHANGED <<qvars, bvars, kvars, store, call, prev>>

\* The loop is over: return.
ProcessCommitsReturn ==
    /\ proc.pc = "split"
    /\ proc.i >= Len(proc.commits)
    /\ proc' = [proc EXCEPT !.pc = "done"]
    /\ UNCHANGED <<qvars, bvars, kvars, store, call, prev>>

ProcessNext ==
    \/ \E commits \in Batches : ProcessCommits(commits)
    \/ ProcessSmallBatch
    \/ ProcessCommitsReturn

\* BatchCreate called again and again by one caller, the pool left alone.
PersistInit == Init /\ maxSize = MaxCap /\ batchSize = MaxBatch

PersistSpec == PersistInit /\ [][PersistNext]_vars

\* processCommits called again and again by one worker.
ProcessSpec == PersistInit /\ [][ProcessNext]_vars

(***************************************************************************)
(* CircuitBreakerWrapper: NewCircuitBreaker's settings and Execute, which  *)
(* hands the call to gobreaker.CircuitBreaker.Execute.                     *)
(***************************************************************************)
\* ReadyToTrip: counts.Requests >= 3 && TotalFailures/Requests >= 0.6,
\* with a variant that trips at the first failure and one that needs more
\* than 3 requests.
ReadyToTrip_AnyFailure(counts) == counts.TotalFailures >= 1

ReadyToTrip_MoreThanMin(counts) ==
    /\ counts.Requests > MinRequests
    /\ 10 * counts.TotalFailures >= 6 * counts.Requests

ReadyToTrip(counts) ==
    /\ counts.Requests >= MinRequests
    /\ 10 * counts.TotalFailures >= 6 * counts.Requests

\* toNewGeneration for state st: counts cleared; the expiry is the interval
\* in Closed, the timeout in Open, none in HalfOpen.
NewGeneration(st) ==
    [state |-> st, counts |-> NoCounts,
     hasExpiry |-> (st # "halfopen"),
     left |-> IF st = "closed" THEN Interval
              ELSE IF st = "open" THEN Timeout ELSE 0]

Expired(b) == b.hasExpiry /\ b.left < 0

\* currentState(now): a Closed breaker past its interval starts a new
\* generation, an Open one past its timeout becomes HalfOpen.
CurrentState(b) ==
    IF b.state = "closed" /\ Expired(b) THEN NewGeneration("closed")
    ELSE IF b.state = "open" /\ Expired(b) THEN NewGeneration("halfopen")
    ELSE b

\* onSuccess and onFailure of afterRequest.
OnSuccess(b) ==
    LET counts == [b.counts EXCEPT !.TotalSuccesses = @ + 1,
                                   !.ConsecutiveSuccesses = @ + 1,
                                   !.ConsecutiveFailures = 0]
    IN  IF b.state = "halfopen" /\ counts.ConsecutiveSuccesses >= CbMaxRequests
        THEN NewGeneration("closed")
        ELSE [b EXCEPT !.counts = counts]

OnFailure(b) ==
    LET counts == [b.counts EXCEPT !.TotalFailures = @ + 1,
                                   !.ConsecutiveFailures = @ + 1,
                                   !.ConsecutiveSuccesses = 0]
    IN  IF b.state = "halfopen" THEN NewGeneration("open")
        ELSE IF b.state = "closed" /\ ReadyToTrip(counts) THEN NewGeneration("open")
        ELSE [b EXCEPT !.counts = counts]

\* A new generation began between b and nb: the calls in flight belong to an
\* older generation from then on.
GenerationChanged(b, nb) ==
    \/ nb.state # b.state
    \/ b.state = "closed" /\ Expired(b)

MarkStale(calls, changed) ==
    [c \in CbCallers |->
        IF changed /\ calls[c].pc = "running"
        THEN [calls[c] EXCEPT !.stale = TRUE] ELSE calls[c]]

\* The window of outcomes kept for observation starts again with every
\* generation but the one that opens the breaker.
Window(b, nb, w) ==
    IF GenerationChanged(b, nb) /\ nb.state # "open" THEN <<>> ELSE w

\* One second passes.
CbTick ==
    /\ cb.hasExpiry
    /\ cb.left >= 0
    /\ cb' = [cb EXCEPT !.left = @ - 1]
    /\ UNCHANGED <<qvars, pvars, kvars, cbCall, recorded>>

\* cb.Execute(fn) up to the invocation of fn: beforeRequest refuses the call
\* while Open, and in HalfOpen once MaxRequests calls were admitted; else the
\* request is counted and fn starts.
CbExecute(c) ==
    /\ cbCall[c].pc = "idle"
    /\ LET cur == CurrentState(cb)
           changed == GenerationChanged(cb, cur)
           calls == MarkStale(cbCall, changed)
       IN  /\ recorded' = Window(cb, cur, recorded)
           /\ IF cur.state = "open"
              THEN /\ cb' = cur
                   /\ cbCall' = [calls EXCEPT ![c].ret = "open"]
              ELSE IF cur.state = "halfopen" /\ cur.counts.Requests >= CbMaxRequests
              THEN /\ cb' = cur
                   /\ cbCall' = [calls EXCEPT ![c].ret = "toomany"]
              ELSE /\ cur.counts.Requests < MaxCbRequests
                   /\ cb' = [cur EXCEPT !.counts.Requests = @ + 1]
                   /\ cbCall' = [calls EXCEPT ![c] =
                          [pc |-> "running", stale |-> FALSE, ret |-> "none"]]
    /\ UNCHANGED <<qvars, pvars, kvars>>

\* Three variants of Execute: one lets every call through in HalfOpen, one
\* calls fn itself when the breaker refuses the call, one refuses every call
\* to a breaker it last saw Open.
Execute_NoProbeLimit(c) ==
    IF CurrentState(cb).state = "halfopen"
    THEN /\ cbCall[c].pc = "idle"
         /\ CurrentState(cb).counts.Requests < MaxCbRequests
         /\ cb' = [CurrentState(cb) EXCEPT !.counts.Requests = @ + 1]
         /\ cbCall' = [MarkStale(cbCall, GenerationChanged(cb, CurrentState(cb)))
                          EXCEPT ![c] = [pc |-> "running", stale |-> FALSE,
                                         ret |-> "none"]]
         /\ recorded' = Window(cb, CurrentState(cb), recorded)
         /\ UNCHANGED <<qvars, pvars, kvars>>
    ELSE CbExecute(c)

Execute_IgnoresOpen(c) ==
    IF CurrentState(cb).state = "open"
    THEN /\ cbCall[c].pc = "idle"
         /\ cbCall' = [cbCall EXCEPT ![c] =
                [pc |-> "running", stale |-> TRUE, ret |-> "none"]]
         /\ UNCHANGED <<qvars, pvars, kvars, cb, recorded>>
    ELSE CbExecute(c)

Execute_RefusesOpen(c) ==
    IF cb.state = "open"
    THEN /\ cbCall[c].pc = "idle"
         /\ cbCall' = [cbCall EXCEPT ![c].ret = "open"]
         /\ UNCHANGED <<qvars, pvars, kvars, cb, recorded>>
    ELSE CbExecute(c)

\* CircuitBreakerWrapper.Execute: return cbw.cb.Execute(fn).
Execute(c) == CbExecute(c)

\* fn returns (a result or an error) and afterRequest records the outcome,
\* unless the call belongs to an older generation.
CbAfter(c) ==
    /\ cbCall[c].pc = "running"
    /\ \E ok \in BOOLEAN :
          LET cur == CurrentState(cb)
              stale == cbCall[c].stale \/ GenerationChanged(cb, cur)
              nb == IF stale THEN cur
                    ELSE IF ok THEN OnSuccess(cur) ELSE OnFailure(cur)
              changed == GenerationChanged(cb, cur) \/ GenerationChanged(cur, nb)
              w == Window(cb, cur, recorded)
          IN  /\ cb' = nb
              /\ cbCall' = [MarkStale(cbCall, changed) EXCEPT ![c] =
                     [pc |-> "idle", stale |-> FALSE,
                      ret |-> IF ok THEN "ok" ELSE "err"]]
              /\ recorded' = IF ~stale /\ cur.state = "closed"
                             THEN Window(cur, nb, Append(w, ok))
                             ELSE Window(cur, nb, w)
    /\ UNCHANGED <<qvars, pvars, kvars>>

BreakerNext ==
    \/ CbTick
    \/ \E c \in CbCallers : Execute(c)
    \/ \E c \in CbCallers : CbAfter(c)

BreakerInit == PersistInit

BreakerSpec == BreakerInit /\ [][BreakerNext]_vars

(***************************************************************************)
(* CrawlingCoordinator: CrawlAll, ForceReactivateAll, SetStabilityThreshold *)
(* and StartPeriodicCrawling as startCircuitBreakerCoordinator runs it.     *)
(* CrawlRepos, CrawlReleases and CrawlCommits return a payload or an error  *)
(* (of the remote call, or of the stage's circuit breaker).                 *)
(***************************************************************************)
Results == Payloads \cup {Err}

\* json.Marshal of a decoded payload.
Marshal(v) == [json |-> v]

\* hasDataChanged(previous, current), with a variant that compares only.
HasDataChanged_CompareOnly(previous, current) ==
    Marshal(previous) # Marshal(current)

HasDataChanged(previous, current) ==
    \/ previous = Nil
    \/ Marshal(previous) # Marshal(current)

\* shouldCrawl := (repoChanged || c.releaseCache == nil) && !c.releasePaused,
\* with a variant that ignores the predecessor's change.
ShouldCrawl_CacheOnly(changed, cached, isPaused) == cached = Nil /\ ~isPaused

ShouldCrawl(changed, cached, isPaused) ==
    (changed \/ cached = Nil) /\ ~isPaused

\* The flag of the predecessor's change a stage looks at.
PredChanged(s) == IF s = "release" THEN cyc.repoChanged ELSE cyc.releaseChanged

\* The step that follows the wg.Wait() of step s; with a variant that runs the
\* commit step before the release step.
NextStage_CommitFirst(s) ==
    IF s = "repo" THEN "commit" ELSE IF s = "commit" THEN "release" ELSE "end"

NextStage(s) == IF s = "repo" THEN "release" ELSE IF s = "release" THEN "commit" ELSE "end"

Goto(c, s) == [c EXCEPT !.stage = NextStage(s),
                        !.at = IF NextStage(s) = "end" THEN "none" ELSE "check"]

\* CrawlAll up to the start of CrawlRepos: repoNeedsCall is read and, when
\* the repo cache is empty, the call is started.
CrawlAllBegin(caller) ==
    /\ cyc.stage = "none"
    /\ cyc' = IF cache["repo"] = Nil
              THEN [NoCycle EXCEPT !.stage = "repo", !.at = "inflight",
                                   !.afterReactivate = obs.reactivatedSince]
              ELSE [NoCycle EXCEPT !.stage = "release", !.at = "check",
                                   !.afterReactivate = obs.reactivatedSince]
    /\ obs' = [obs EXCEPT !.calls = [NoCalls EXCEPT !["repo"] =
                                        IF cache["repo"] = Nil THEN 1 ELSE 0],
                          !.reactivated = FALSE,
                          !.reactivatedSince = FALSE,
                          !.begun[caller] = TRUE]

\* startCircuitBreakerCoordinator: the initial coordinator.CrawlAll().
MainCrawl ==
    /\ loop.pc = "start"
    /\ CrawlAllBegin("main")
    /\ loop' = [loop EXCEPT !.pc = "initial"]
    /\ UNCHANGED <<qvars, pvars, bvars, cache, noChangeCount, paused,
                   stabilityThreshold>>

\* (a repo step that leaves the release count as it is)
RepoReturn_KeepsCount ==
    /\ cyc.stage = "repo"
    /\ cyc.at = "inflight"
    /\ \E res \in Results :
          IF res = Err
          THEN /\ cyc' = [Goto(cyc, "repo") EXCEPT !.failed["repo"] = TRUE]
               /\ UNCHANGED <<cache, paused, noChangeCount, obs>>
          ELSE /\ cache' = [cache EXCEPT !["repo"] = res]
               /\ paused' = [paused EXCEPT !["release"] = FALSE]
               /\ noChangeCount' = noChangeCount
               /\ cyc' = [Goto(cyc, "repo") EXCEPT !.repoChanged = TRUE]
               /\ obs' = [obs EXCEPT !.reactivated = FALSE,
                                     !.repoFetched = IF res = Nil THEN "null"
                                                     ELSE "data"]
    /\ UNCHANGED <<qvars, pvars, bvars, stabilityThreshold, loop>>

\* (a repo step that does not keep the payload)
RepoReturn_NoCache ==
    /\ cyc.stage = "repo"
    /\ cyc.at = "inflight"
    /\ \E res \in Results :
          IF res = Err
          THEN /\ cyc' = [Goto(cyc, "repo") EXCEPT !.failed["repo"] = TRUE]
               /\ UNCHANGED <<cache, paused, noChangeCount, obs>>
          ELSE /\ cache' = cache
               /\ paused' = [paused EXCEPT !["release"] = FALSE]
               /\ noChangeCount' = [noChangeCount EXCEPT !["release"] = 0]
               /\ cyc' = [Goto(cyc, "repo") EXCEPT !.repoChanged = TRUE]
               /\ obs' = [obs EXCEPT !.reactivated = FALSE,
                                     !.repoFetched = IF res = Nil THEN "null"
                                                     ELSE "data"]
    /\ UNCHANGED <<qvars, pvars, bvars, stabilityThreshold, loop>>

\* CrawlRepos returns: an error leaves everything as it was; a payload is
\* cached, repoChanged is set and the release stage is reactivated.
RepoReturn ==
    /\ cyc.stage = "repo"
    /\ cyc.at = "inflight"
    /\ \E res \in Results :
          IF res = Err
          THEN /\ cyc' = [Goto(cyc, "repo") EXCEPT !.failed["repo"] = TRUE]
               /\ UNCHANGED <<cache, paused, noChangeCount, obs>>
          ELSE /\ cache' = [cache EXCEPT !["repo"] = res]
               /\ paused' = [paused EXCEPT !["release"] = FALSE]
               /\ noChangeCount' = [noChangeCount EXCEPT !["release"] = 0]
               /\ cyc' = [Goto(cyc, "repo") EXCEPT !.repoChanged = TRUE]
               /\ obs' = [obs EXCEPT !.reactivated = FALSE,
                                     !.repoFetched = IF res = Nil THEN "null"
                                                     ELSE "data"]
    /\ UNCHANGED <<qvars, pvars, bvars, stabilityThreshold, loop>>

\* Step 2 (s = "release") and step 3 (s = "commit") up to the start of the
\* call: shouldCrawl is read under the read lock.
StageCheck(s) ==
    /\ cyc.stage = s
    /\ cyc.at = "check"
    /\ IF ShouldCrawl(PredChanged(s), cache[s], paused[s])
       THEN /\ cyc' = [cyc EXCEPT !.at = "inflight",
                                  !.sawNil[s] = (cache[s] = Nil)]
            /\ obs' = [obs EXCEPT !.calls[s] = @ + 1]
       ELSE /\ cyc' = Goto(cyc, s)
            /\ obs' = obs
    /\ UNCHANGED <<qvars, pvars, bvars, cache, noChangeCount, paused,
                   stabilityThreshold, loop>>

\* (a stage that drops its cached result when its call fails)
StageReturn_ClearsOnError(s) ==
    /\ cyc.stage = s
    /\ cyc.at = "inflight"
    /\ \E res \in Results :
          IF res = Err
          THEN /\ cyc' = [Goto(cyc, s) EXCEPT !.failed[s] = TRUE]
               /\ cache' = [cache EXCEPT ![s] = Nil]
          ELSE /\ cyc' = [cyc EXCEPT !.at = "read", !.data = res]
               /\ cache' = cache
    /\ UNCHANGED <<qvars, pvars, bvars, noChangeCount, paused,
                   stabilityThreshold, loop, obs>>

\* CrawlReleases or CrawlCommits returns: an error ends the stage.
StageReturn(s) ==
    /\ cyc.stage = s
    /\ cyc.at = "inflight"
    /\ \E res \in Results :
          cyc' = IF res = Err THEN [Goto(cyc, s) EXCEPT !.failed[s] = TRUE]
                 ELSE [cyc EXCEPT !.at = "read", !.data = res]
    /\ UNCHANGED <<qvars, pvars, bvars, cache, noChangeCount, paused,
                   stabilityThreshold, loop, obs>>

\* prevData := c.releaseCache, under the read lock.
StageRead(s) ==
    /\ cyc.stage = s
    /\ cyc.at = "read"
    /\ cyc' = [cyc EXCEPT !.at = "update", !.prevData = cache[s]]
    /\ UNCHANGED <<qvars, pvars, bvars, cache, noChangeCount, paused,
                   stabilityThreshold, loop, obs>>

\* The comparison and, under the write lock, the update: a changed payload
\* replaces the cache and resets the count (and, for releases, sets
\* releaseChanged and reactivates the commit stage); an unchanged one
\* increments the count and pauses the stage at the threshold.
StageUpdate(s) ==
    /\ cyc.stage = s
    /\ cyc.at = "update"
    /\ IF HasDataChanged(cyc.prevData, cyc.data)
       THEN /\ cache' = [cache EXCEPT ![s] = cyc.data]
            /\ noChangeCount' =
                  IF s = "release"
                  THEN [noChangeCount EXCEPT !["release"] = 0, !["commit"] = 0]
                  ELSE [noChangeCount EXCEPT ![s] = 0]
            /\ paused' = IF s = "release"
                         THEN [paused EXCEPT !["commit"] = FALSE] ELSE paused
            /\ cyc' = IF s = "release"
                      THEN [Goto(cyc, s) EXCEPT !.releaseChanged = TRUE]
                      ELSE Goto(cyc, s)
            /\ obs' = [obs EXCEPT !.run[s] = 0, !.reactivated = FALSE]
       ELSE /\ cache' = cache
            /\ noChangeCount' = [noChangeCount EXCEPT ![s] = @ + 1]
            /\ paused' = IF noChangeCount[s] + 1 >= stabilityThreshold
                         THEN [paused EXCEPT ![s] = TRUE] ELSE paused
            /\ cyc' = Goto(cyc, s)
            /\ obs' = [obs EXCEPT !.run[s] = Min(@ + 1, DefaultThreshold),
                                  !.reactivated = FALSE]
    /\ UNCHANGED <<qvars, pvars, bvars, stabilityThreshold, loop>>

\* The first stage of a cycle whose call returned an error, if any.
FirstFailed(f) ==
    IF f["repo"] THEN "repo"
    ELSE IF f["release"] THEN "release"
    ELSE IF f["commit"] THEN "commit" ELSE "none"

\* The end of CrawlAll; the caller goes on: main invokes
\* StartPeriodicCrawling, the periodic loop selects again.
CrawlAllEnd ==
    /\ cyc.stage = "end"
    /\ cyc' = NoCycle
    /\ loop' = [loop EXCEPT !.pc = IF loop.pc = "initial" THEN "invoke" ELSE "select"]
    /\ obs' = [obs EXCEPT !.failedBefore = FirstFailed(cyc.failed)]
    /\ UNCHANGED <<qvars, pvars, bvars, cache, noChangeCount, paused,
                   stabilityThreshold>>

\* ForceReactivateAll, called by any goroutine.
ForceReactivateAll ==
    /\ cache' = [cache EXCEPT !["repo"] = Nil]
    /\ paused' = [paused EXCEPT !["release"] = FALSE, !["commit"] = FALSE]
    /\ noChangeCount' = [s \in Stages |-> 0]
    /\ obs' = [obs EXCEPT !.reactivated = TRUE, !.reactivatedSince = TRUE,
                          !.run = [s \in Stages |-> 0],
                          !.repoFetched = "no"]
    /\ UNCHANGED <<qvars, pvars, bvars, stabilityThreshold, cyc, loop>>

\* SetStabilityThreshold(threshold).
SetStabilityThreshold(threshold) ==
    /\ stabilityThreshold' = IF threshold < 1 THEN 1 ELSE threshold
    /\ obs' = [obs EXCEPT !.thresholdSet = TRUE]
    /\ UNCHANGED <<qvars, pvars, bvars, cache, noChangeCount, paused, cyc,
                   loop>>

\* StartPeriodicCrawling is entered: the ticker is created.
StartPeriodicCrawling ==
    /\ loop.pc = "invoke"
    /\ loop' = [loop EXCEPT !.pc = "select", !.tickPending = FALSE]
    /\ UNCHANGED <<qvars, pvars, bvars, cache, noChangeCount, paused,
                   stabilityThreshold, cyc, obs>>

\* The interval elapses: the ticker sends on its channel of capacity 1 (a
\* tick that finds one pending is dropped).
IntervalTick ==
    /\ loop.pc \in {"select", "cycle"}
    /\ ~loop.tickPending
    /\ loop' = [loop EXCEPT !.tickPending = TRUE]
    /\ UNCHANGED <<qvars, pvars, bvars, cache, noChangeCount, paused,
                   stabilityThreshold, cyc, obs>>

\* close(stopChan), on a shutdown signal.
CloseStop ==
    /\ ~loop.stopped
    /\ loop' = [loop EXCEPT !.stopped = TRUE]
    /\ UNCHANGED <<qvars, pvars, bvars, cache, noChangeCount, paused,
                   stabilityThreshold, cyc, obs>>

\* select, case <-ticker.C: c.CrawlAll(). When stopChan is closed as well
\* select takes either case.
SelectTick ==
    /\ loop.pc = "select"
    /\ loop.tickPending
    /\ CrawlAllBegin("periodic")
    /\ loop' = [loop EXCEPT !.pc = "cycle", !.tickPending = FALSE]
    /\ UNCHANGED <<qvars, pvars, bvars, cache, noChangeCount, paused,
                   stabilityThreshold>>

\* A variant of the stop case that is looked at only when a tick arrives.
SelectStop_AfterTick ==
    /\ loop.pc = "select"
    /\ loop.stopped
    /\ loop.tickPending
    /\ loop' = [loop EXCEPT !.pc = "returned", !.tickPending = FALSE]
    /\ UNCHANGED <<qvars, pvars, bvars, cache, noChangeCount, paused,
                   stabilityThreshold, cyc, obs>>

\* select, case <-stopChan: return (the deferred ticker.Stop() runs).
SelectStop ==
    /\ loop.pc = "select"
    /\ loop.stopped
    /\ loop' = [loop EXCEPT !.pc = "returned", !.tickPending = FALSE]
    /\ UNCHANGED <<qvars, pvars, bvars, cache, noChangeCount, paused,
                   stabilityThreshold, cyc, obs>>

CoordNext ==
    \/ MainCrawl
    \/ RepoReturn
    \/ \E s \in {"release", "commit"} : StageCheck(s)
    \/ \E s \in {"release", "commit"} : StageReturn(s)
    \/ \E s \in {"release", "commit"} : StageRead(s)
    \/ \E s \in {"release", "commit"} : StageUpdate(s)
    \/ CrawlAllEnd
    \/ ForceReactivateAll
    \/ \E threshold \in 0..MaxThreshold : SetStabilityThreshold(threshold)
    \/ StartPeriodicCrawling
    \/ IntervalTick
    \/ CloseStop
    \/ SelectTick
    \/ SelectStop

CoordSpec == PersistInit /\ [][CoordNext]_vars

(***************************************************************************)
(* Properties of the queue and the worker pool.                            *)
(***************************************************************************)
Offered == Len(enqOrder) + Cardinality(rejected)

\* C1: backpressure invariant: for a queue created with maxSize > 0,
\* len(items) <= maxSize in every reachable state, whatever the interleaving
\* of producers and workers.
C1_Backpressure == maxSize > 0 => Len(items) <= maxSize

C1_Witness ==
    /\ maxSize > 0
    /\ Len(items) = maxSize
    /\ rejected # {}
    /\ \E w \in Workers : pc[w] = "process"

\* C2: EnqueueRelease on a full queue returns false and changes nothing
\* (items, metrics, the wait set and every worker are as before); every other
\* call returns true, appends the request at the tail, adds exactly 1 to
\* EnqueueCount and signals one waiter (one parked worker leaves the wait
\* set, if any is parked).
C2_EnqueueStep ==
    Offered' # Offered =>
        IF maxSize > 0 /\ Len(items) = maxSize
        THEN /\ Cardinality(rejected') = Cardinality(rejected) + 1
             /\ enqOrder' = enqOrder
             /\ items' = items
             /\ metrics' = metrics
             /\ waiters' = waiters
             /\ pc' = pc
        ELSE /\ rejected' = rejected
             /\ Len(enqOrder') = Len(enqOrder) + 1
             /\ items' = Append(items, enqOrder'[Len(enqOrder')])
             /\ metrics'.EnqueueCount = metrics.EnqueueCount + 1
             /\ metrics'.DequeueCount = metrics.DequeueCount
             /\ IF waiters = {}
                THEN waiters' = {} /\ pc' = pc
                ELSE \E wk \in waiters :
                        /\ waiters' = waiters \ {wk}
                        /\ pc' = [pc EXCEPT ![wk] = "woken"]

C2_Enqueue == [][C2_EnqueueStep]_vars

C2_Witness ==
    /\ rejected # {}
    /\ Len(items) = maxSize
    /\ \E w \in Workers : pc[w] = "woken"

\* C3: FIFO: a dequeue removes and returns exactly the
\* min(maxCount, len(items)) oldest requests, in the order they were
\* accepted, and leaves in the queue only requests accepted after them.
C3_DequeueStep ==
    deqOrder' # deqOrder =>
        \E w \in Workers :
            LET n == Min(batchSize, Len(items))
                d == Len(deqOrder)
            IN  /\ n >= 1
                /\ batch'[w] = SubSeq(enqOrder, d + 1, d + n)
                /\ \A v \in Workers \ {w} : batch'[v] = batch[v]
                /\ items' = SubSeq(enqOrder, d + n + 1, Len(enqOrder))
                /\ deqOrder' = SubSeq(enqOrder, 1, d + n)

C3_Fifo == [][C3_DequeueStep]_vars

C3_Witness ==
    \E w \in Workers :
        /\ Len(batch[w]) = 2
        /\ Len(items) >= 1
        /\ batch[w] = SubSeq(enqOrder, Len(deqOrder) - 1, Len(deqOrder))

\* C4: Stop terminates: once Stop() has signalled cancellation on a started
\* pool, every worker eventually exits and Stop() returns; a worker parked
\* in dequeueReleases on an empty queue is woken by the cancellation.
\* Stated on states: a cancelled pool that has not stopped yet always has a
\* goroutine of its own (a worker, or Stop in workerWg.Wait()) that can take
\* a step, without the help of any producer.
PoolStopped == stopPc = "returned" /\ \A w \in Workers : pc[w] = "exited"

PoolStep == (\E w \in Workers : WorkerStep(w)) \/ StopReturn

C4_StopTerminates ==
    (started /\ cancelled) => (PoolStopped \/ ENABLED PoolStep)

\* C5: at-least-once attempted persistence: in a started pool that is never
\* stopped, every request accepted by EnqueueRelease is eventually dequeued
\* by a worker and handed to BatchCreate, and in no reachable state is the
\* queue non-empty while every worker is parked on the condition variable
\* (no lost wake-up); under fair scheduling, BatchCreate returning.
NoLostWakeup ==
    (started /\ items # <<>>) => \E w \in Workers : pc[w] # "waiting"

C5_AtLeastOnce ==
    /\ []NoLostWakeup
    /\ ([]~cancelled) =>
           \A i \in 1..MaxOffered :
               (started /\ i \in Range(items)) ~> (i \in handed)

C5_Witness ==
    /\ ~cancelled
    /\ items = <<>>
    /\ Len(enqOrder) >= 2
    /\ handed = Range(enqOrder)
    /\ \A w \in Workers : pc[w] = "waiting"

Pos(seq, x) == CHOOSE i \in 1..Len(seq) : seq[i] = x

Accepted(reqs) == {x \in Range(reqs) : x \in Range(enqOrder)}

\* C6: BatchEnqueueReleases offers every request of its argument to
\* EnqueueRelease, in order and past a rejection; it returns exactly the
\* number of requests EnqueueRelease accepted; and a request it has had
\* accepted stays in the queue (until a worker dequeues it) when a later one
\* is rejected.
C6_BatchEnqueue ==
    \A p \in Producers :
        LET reqs == prod[p].reqs
            done == IF prod[p].pc = "done" THEN Len(reqs) ELSE prod[p].idx - 1
        IN  prod[p].pc \in {"loop", "done"} =>
              /\ \A i \in 1..Len(reqs) :
                    (i <= done) <=> (reqs[i] \in Range(enqOrder) \cup rejected)
              /\ prod[p].enqueued = Cardinality(Accepted(reqs))
              /\ prod[p].pc = "done" => prod[p].ret = Cardinality(Accepted(reqs))
              /\ \A i, j \in 1..Len(reqs) :
                    (i < j /\ reqs[i] \in Accepted(reqs) /\ reqs[j] \in Accepted(reqs))
                        => Pos(enqOrder, reqs[i]) < Pos(enqOrder, reqs[j])
              /\ Accepted(reqs) \subseteq Range(deqOrder) \cup Range(items)

C6_Witness ==
    \E p \in Producers :
        /\ prod[p].pc = "done"
        /\ Len(prod[p].reqs) = 3
        /\ prod[p].reqs[1] \in Range(enqOrder)
        /\ prod[p].reqs[2] \in rejected
        /\ prod[p].reqs[3] \in Range(items)
        /\ prod[p].ret = 2

\* The call of BatchEnqueueReleases that has returned after offering K
\* requests to a pool of capacity M < K, no other producer having offered
\* anything.
OverflowCase(p) ==
    /\ prod[p].pc = "done"
    /\ maxSize > 0
    /\ Len(prod[p].reqs) > maxSize
    /\ Offered = Len(prod[p].reqs)

NoBatchHeld == \A w \in Workers : pc[w] # "process"

\* C7 (as claimed): K requests offered to a pool of capacity M < K give
\* exactly M accepted and K - M rejected (250 into maxSize 200: 200 and 50),
\* and after the workers drain the queue DequeueCount = M and BatchCreate
\* has been handed M requests.
C7_Overflow ==
    \A p \in Producers :
        OverflowCase(p) =>
            /\ prod[p].ret = maxSize
            /\ Cardinality(rejected) = Len(prod[p].reqs) - maxSize
            /\ items = <<>> => metrics.DequeueCount = maxSize
            /\ (items = <<>> /\ NoBatchHeld) => handedCount = maxSize

\* C7 (amended): K requests offered to a pool of capacity M < K give at
\* least M accepted, the rest rejected, and exactly M accepted when no worker
\* has dequeued by the time the call returns (the pool not started, or its
\* workers not yet at the queue); once the queue is drained DequeueCount is
\* the number accepted, and once no worker holds a batch BatchCreate has
\* been handed that many requests.
C7_OverflowAmended ==
    \A p \in Producers :
        OverflowCase(p) =>
            /\ prod[p].ret >= maxSize
            /\ prod[p].ret + Cardinality(rejected) = Len(prod[p].reqs)
            /\ metrics.DequeueCount = 0 => prod[p].ret = maxSize
            /\ items = <<>> => metrics.DequeueCount = prod[p].ret
            /\ (items = <<>> /\ NoBatchHeld) => handedCount = prod[p].ret

C7_Witness ==
    \E p \in Producers :
        /\ OverflowCase(p)
        /\ maxSize = 2
        /\ prod[p].ret = 2
        /\ Cardinality(rejected) = 1
        /\ items = <<>>
        /\ NoBatchHeld
        /\ metrics.DequeueCount = 2
        /\ handedCount = 2

\* C8: the producer never waits on persistence: no worker holds the queue
\* mutex while BatchCreate is running for it (the mutex is held only inside
\* the short critical sections of dequeueReleases and of the decrement), so
\* a call of EnqueueRelease made while a batch is being persisted is not
\* kept waiting by that worker.
C8_NoLockWhilePersisting ==
    \A w \in Workers :
        /\ pc[w] = "process" => mutex # w
        /\ mutex = w => pc[w] \in {"check", "recheck", "dec"}

C8_Witness ==
    \E w \in Workers :
        /\ pc[w] = "process"
        /\ Len(batch[w]) < batchSize
        /\ items # <<>>
        /\ rejected # {}

\* C9: a persistence error never stops a worker: when BatchCreate returns an
\* error the worker keeps its batch, goes to the decrement, takes the batch
\* size off the processing counter and is back at the top of its loop; a
\* worker leaves its loop only from the top of the loop, after cancellation.
C9_WorkerStep ==
    \A w \in Workers :
        /\ (pc[w] = "process" /\ pc'[w] # "process") =>
               /\ pc'[w] = "declock"
               /\ batch'[w] = batch[w]
        /\ failed'[w] => pc'[w] \in {"declock", "dec"} /\ batch'[w] # <<>>
        /\ (failed[w] /\ ~failed'[w]) =>
               /\ processing' = processing - Len(batch[w])
               /\ pc'[w] = "loop"
        /\ (pc[w] # "exited" /\ pc'[w] = "exited") => cancelled /\ pc[w] = "loop"

C9_ErrorKeepsWorker == [][C9_WorkerStep]_vars

C9_Witness ==
    \E w \in Workers :
        /\ failed[w]
        /\ pc[w] = "dec"
        /\ Len(batch[w]) = 2
        /\ items # <<>>
        /\ ~cancelled

(***************************************************************************)
(* Properties of BatchCreate.                                              *)
(***************************************************************************)
Deduplicated == Len(call.requests) - Len(call.newRequests)

\* The call that has just returned was given the batch of the call before
\* it, which had written it (no error, no failed record), and met no
\* storage error itself.
SecondCallSameBatch ==
    /\ call.pc = "done"
    /\ prev.valid
    /\ prev.wrote
    /\ prev.requests # <<>>
    /\ call.requests = prev.requests
    /\ ~call.dbErr

\* C10: dedup idempotence: for every batch, a second BatchCreate with the
\* unchanged batch, after a first call that wrote it, writes nothing
\* (written = 0) and finds every request already present
\* (deduplicated = len(batch)).
C10_DedupIdempotent ==
    SecondCallSameBatch =>
        /\ call.written = 0
        /\ Deduplicated = Len(call.requests)
        /\ ~call.err

\* C11: fallback completeness: whenever the transactional insert fails for N
\* new requests, the individual inserts attempt each of the N exactly once
\* and, when they have finished, successCount + errorCount = N, whatever the
\* outcomes and the interleaving of the goroutines.
C11_FallbackComplete ==
    call.fallback =>
        /\ \A i \in 1..Len(call.newRequests) : call.attempts[i] <= 1
        /\ call.pc = "done" =>
              /\ \A i \in 1..Len(call.newRequests) : call.attempts[i] = 1
              /\ call.successCount + call.errorCount = Len(call.newRequests)

\* A fallback over three new requests has finished with inserts of both
\* outcomes.
C11_Witness ==
    /\ call.pc = "done"
    /\ call.fallback
    /\ Len(call.newRequests) = MaxRequests
    /\ call.successCount >= 1
    /\ call.errorCount >= 1

\* The rows of key k in the store that came from this call's transaction:
\* those added since the call began, less the individual inserts.
TxVisible(k) ==
    store[k] - call.before[k]
        - Cardinality({i \in call.inserted : call.newRequests[i] = k})

\* C12: the transactional path is all-or-nothing: of the records inserted
\* through the transaction either every one is visible in the store or none
\* is, and after a failed chunk insert or a failed commit none is.
C12_AllOrNothing ==
    /\ \/ \A k \in Requests : TxVisible(k) = 0
       \/ \A k \in Requests : TxVisible(k) = Count(call.newRequests, k)
    /\ (call.txFailed \/ call.pc \in {"find", "insert", "commit"}) =>
           \A k \in Requests : TxVisible(k) = 0

\* A call has returned whose transaction failed after a whole chunk had been
\* inserted through it.
C12_Witness ==
    /\ call.pc = "done"
    /\ call.txFailed
    /\ call.txDone >= ChunkSize
    /\ Len(call.newRequests) > ChunkSize

\* C13: BatchCreate never returns an error for an ordinary write failure:
\* when a chunk insert, the commit or an individual insert has failed (and no
\* read of the store has), the call returns a result and no error.
C13_NoErrorForWriteFailure ==
    (call.pc = "done" /\ call.writeFailed /\ ~call.readFailed) => ~call.err

(***************************************************************************)
(* Properties of the circuit breaker.                                      *)
(***************************************************************************)
NumFailures(w) == Cardinality({i \in 1..Len(w) : ~w[i]})

\* No call of the current generation is in flight.
NoneInFlight == \A c \in CbCallers : cbCall[c].pc = "running" => cbCall[c].stale

\* The window has seen exactly three calls, two of them failed, and is not
\* over.
ThreeCallsTwoFailed ==
    /\ Len(recorded) = MinRequests
    /\ NumFailures(recorded) = 2
    /\ NoneInFlight
    /\ cb.state = "closed" => ~Expired(cb)

ExecuteStep(c) == cbCall[c].pc = "idle" /\ cbCall'[c] # cbCall[c]

\* C15: fail fast while Open: when the breaker is Open and the open duration
\* has not elapsed, Execute returns the circuit-open error and does not
\* invoke the wrapped function, for every caller.
C15_OpenStep ==
    \A c \in CbCallers :
        (cb.state = "open" /\ ~Expired(cb) /\ cbCall[c].pc = "idle") =>
            /\ cbCall'[c].pc = "idle"
            /\ ExecuteStep(c) => cbCall'[c].ret = "open"

C15_FailFast == [][C15_OpenStep]_vars

\* A caller has been refused by an Open breaker while another caller's call,
\* begun before the breaker opened, is still running.
C15_Witness ==
    /\ cb.state = "open"
    /\ ~Expired(cb)
    /\ \E c, d \in CbCallers :
          /\ cbCall[c].pc = "idle" /\ cbCall[c].ret = "open"
          /\ cbCall[d].pc = "running"

\* The step in which caller c's call returns and is recorded.
AfterStep(c, ok) ==
    /\ cbCall[c].pc = "running"
    /\ cbCall'[c].pc = "idle"
    /\ cbCall'[c].ret = IF ok THEN "ok" ELSE "err"

\* The steps of the recovery: the first Execute after the timeout is let
\* through and makes the breaker HalfOpen; a failed probe opens it again for
\* the whole timeout; a successful one closes it or counts one more
\* consecutive success.
C16_RecoveryStep ==
    \A c \in CbCallers :
        /\ (cb.state = "open" /\ Expired(cb) /\ ExecuteStep(c)) =>
               /\ cbCall'[c].pc = "running"
               /\ cb'.state = "halfopen"
        /\ (cb.state = "halfopen" /\ ~cbCall[c].stale /\ AfterStep(c, FALSE)) =>
               /\ cb'.state = "open"
               /\ cb'.left = Timeout
        /\ (cb.state = "halfopen" /\ ~cbCall[c].stale /\ AfterStep(c, TRUE)) =>
               \/ cb'.state = "closed"
               \/ /\ cb'.state = "halfopen"
                  /\ cb'.counts.ConsecutiveSuccesses =
                         cb.counts.ConsecutiveSuccesses + 1

\* An Open breaker is never stuck: its timeout runs down, and once it has
\* elapsed every idle caller's Execute is let through.
NotStuckOpen ==
    cb.state = "open" =>
        \/ ENABLED CbTick
        \/ \A c \in CbCallers : cbCall[c].pc = "idle" => ENABLED Execute(c)

\* C16: recovery: once the open duration has elapsed, the next Execute is let
\* through as a HalfOpen probe and invokes the wrapped function; a probe that
\* fails opens the breaker again, one that succeeds moves it toward Closed;
\* the breaker is never stuck in Open.
C16_Recovery == [][C16_RecoveryStep]_vars /\ []NotStuckOpen

\* The breaker has closed again after a trip: three probes succeeded.
C16_Witness ==
    /\ cb.state = "closed"
    /\ \E c \in CbCallers : cbCall[c].ret = "open"
    /\ \A c \in CbCallers : cbCall[c].pc = "idle"
    /\ recorded = <<>>
    /\ cb.counts = NoCounts

\* The steps of a HalfOpen breaker: a call is let through only while fewer
\* than MaxRequests were, and refused otherwise; a failed trial opens the
\* breaker; a successful one closes it exactly when it is the third
\* consecutive success, and the breaker then starts with cleared counts.
C32_ProbeStep ==
    \A c \in CbCallers :
        /\ (cb.state = "halfopen" /\ ExecuteStep(c)) =>
               IF cb.counts.Requests < CbMaxRequests
               THEN cbCall'[c].pc = "running" /\ cb'.counts.Requests = cb.counts.Requests + 1
               ELSE cbCall'[c].pc = "idle" /\ cbCall'[c].ret = "toomany" /\ cb' = cb
        /\ (cb.state = "halfopen" /\ ~cbCall[c].stale /\ AfterStep(c, FALSE)) =>
               cb'.state = "open"
        /\ (cb.state = "halfopen" /\ ~cbCall[c].stale /\ AfterStep(c, TRUE)) =>
               /\ cb'.state \in {"halfopen", "closed"}
               /\ cb'.state = "closed" <=>
                      cb.counts.ConsecutiveSuccesses = CbMaxRequests - 1
               /\ cb'.state = "closed" =>
                      /\ cb'.counts.Requests = 0
                      /\ cb'.counts.TotalFailures = 0
                      /\ cb'.counts = NoCounts

\* The trial calls let through by a HalfOpen breaker.
C32_ProbeLimit ==
    cb.state = "halfopen" =>
        /\ cb.counts.Requests <= CbMaxRequests
        /\ cb.counts.TotalFailures = 0
        /\ cb.counts.TotalSuccesses = cb.counts.ConsecutiveSuccesses

\* C32: half-open probing: while HalfOpen the breaker lets at most
\* MaxRequests = 3 trial calls through; any failed trial sends it back to
\* Open, and exactly 3 consecutive successful trials send it to Closed with
\* its request and failure counts reset to 0.
C32_HalfOpenProbing == [][C32_ProbeStep]_vars /\ []C32_ProbeLimit

\* A HalfOpen breaker has let three trials through and refused a fourth
\* call.
C32_Witness ==
    /\ cb.state = "halfopen"
    /\ cb.counts.Requests = CbMaxRequests
    /\ \E c \in CbCallers : cbCall[c].pc = "idle" /\ cbCall[c].ret = "toomany"

\* A Closed breaker opens only in a step that records a failure of a call of
\* the running interval, and only when the interval's counts, that failure
\* included, are 3 requests or more with 60% or more of them failed.
C33_TripStep ==
    (cb.state = "closed" /\ cb'.state = "open") =>
        /\ ~Expired(cb)
        /\ \E c \in CbCallers : ~cbCall[c].stale /\ AfterStep(c, FALSE)
        /\ cb.counts.Requests >= 3
        /\ 10 * (cb.counts.TotalFailures + 1) >= 6 * cb.counts.Requests
        /\ cb.counts.TotalFailures = NumFailures(recorded)

\* The counts of a Closed breaker are those of the calls made and recorded
\* in the running interval.
C33_WindowCounts ==
    cb.state = "closed" =>
        /\ cb.counts.TotalFailures + cb.counts.TotalSuccesses <= cb.counts.Requests
        /\ ~Expired(cb) =>
               /\ cb.counts.TotalFailures = NumFailures(recorded)
               /\ cb.counts.TotalSuccesses = Len(recorded) - NumFailures(recorded)

\* C33: a Closed breaker opens only when the trip condition holds: in every
\* window in which fewer than 3 requests have been made, or in which
\* failures/requests < 0.6, it stays Closed however the calls failed; the
\* counts used are those of the current rolling 10 s interval only.
C33_TripOnlyOnCondition == [][C33_TripStep]_vars /\ []C33_WindowCounts

\* Two calls of the running interval have failed, no other was made, and the
\* breaker is still Closed.
C33_Witness ==
    /\ cb.state = "closed"
    /\ ~Expired(cb)
    /\ recorded = <<FALSE, FALSE>>
    /\ cb.counts.Requests = 2

(***************************************************************************)
(* Properties of the coordinator.                                          *)
(***************************************************************************)
\* The release stage of the running cycle is over.
ReleaseStageOver == cyc.stage \in {"commit", "end"}

\* C17 (as claimed): change-gating: in a cycle in which stage A is unchanged
\* (not fetched anew) stage B is not called; in a cycle in which stage A was
\* newly fetched stage B is called exactly once.
C17_ChangeGatingAsClaimed ==
    ReleaseStageOver =>
        /\ ~cyc.repoChanged => obs.calls["release"] = 0
        /\ cyc.repoChanged => obs.calls["release"] = 1

\* C17 (amended): in a cycle in which stage A is not fetched anew, stage B is
\* called only if B's cache is still empty; in a cycle in which stage A was
\* newly fetched, stage B is called exactly once.
C17_ChangeGating ==
    /\ obs.calls["release"] <= 1
    /\ (cyc.stage # "none" /\ ~cyc.repoChanged /\ obs.calls["release"] = 1) =>
           cyc.sawNil["release"]
    /\ (ReleaseStageOver /\ cyc.repoChanged) => obs.calls["release"] = 1

\* A cycle has fetched stage A anew and called stage B, whose cache held a
\* result.
C17_Witness ==
    /\ cyc.stage = "end"
    /\ cyc.repoChanged
    /\ obs.calls["release"] = 1
    /\ ~cyc.sawNil["release"]

\* C18: pause: with the default stabilityThreshold of 3, three consecutive
\* no-change responses for stage B set releasePaused (and B is skipped from
\* then on until ForceReactivateAll).
C18_PauseAfterThree ==
    (/\ ~obs.thresholdSet
     /\ obs.run["release"] >= DefaultThreshold
     /\ cyc.stage # "release") => paused["release"]

\* C19: ForceReactivateAll clears every stage's cached result, pause flag and
\* no-change count, and the next cycle run after it calls stage A, stage B
\* and stage C.
C19_ReactivateClearsAll ==
    /\ obs.reactivated =>
           \A s \in Stages :
               cache[s] = Nil /\ ~paused[s] /\ noChangeCount[s] = 0
    /\ (cyc.stage = "end" /\ cyc.afterReactivate) =>
           \A s \in Stages : obs.calls[s] = 1

\* C20 (as claimed): StartPeriodicCrawling runs a cycle immediately when it
\* is invoked (before it first suspends), then one per interval until stop
\* fires, and returns as soon as stop fires while it is suspended.
C20_ImmediateCycle ==
    /\ loop.pc \in {"select", "returned"} => obs.begun["periodic"]
    /\ (loop.pc = "select" /\ loop.stopped) => ENABLED SelectStop

\* The steps of the periodic loop: a cycle begins only on an elapsed
\* interval, which it consumes; the loop returns only on stop, from select.
C20_LoopStep ==
    /\ (loop.pc = "select" /\ loop'.pc = "cycle") =>
           loop.tickPending /\ ~loop'.tickPending
    /\ (loop.pc # "returned" /\ loop'.pc = "returned") =>
           loop.stopped /\ loop.pc = "select"
    /\ (loop.pc = "start" /\ loop'.pc # "start") => cyc'.stage # "none"

\* Suspended in select: an elapsed interval lets a cycle begin; stop lets the
\* loop return at once, and with no interval elapsed nothing else can happen.
C20_Suspended ==
    loop.pc = "select" =>
        /\ loop.tickPending => ENABLED SelectTick
        /\ loop.stopped => ENABLED SelectStop
        /\ (loop.stopped /\ ~loop.tickPending) => ~ENABLED SelectTick

\* C20 (amended): startCircuitBreakerCoordinator runs a cycle immediately and
\* then invokes StartPeriodicCrawling(interval, stop), which runs one cycle
\* for each elapsed interval it receives, none before the first, and while
\* suspended between cycles returns as soon as stop fires, without waiting
\* for the rest of the interval.
C20_Periodic ==
    /\ [][C20_LoopStep]_vars
    /\ []C20_Suspended
    /\ [](loop.pc # "start" => obs.begun["main"])

\* The periodic loop has run a cycle and then returned on stop with no
\* interval elapsed.
C20_Witness ==
    /\ loop.pc = "returned"
    /\ obs.begun["periodic"]
    /\ ~loop.tickPending

\* The stage calls of the coordinator that are in flight.
InFlight == {s \in Stages : cyc.stage = s /\ cyc.at = "inflight"}

\* The order of the steps of a cycle: the release step starts from the end of
\* the repo step (or at once when the repo call is skipped), the commit step
\* from the end of the release step; a step that ends with a payload has
\* written its cache before the next one starts.
C21_StageStep ==
    /\ (cyc'.stage = "release" /\ cyc.stage # "release") =>
           \/ cyc.stage = "none" /\ cache["repo"] # Nil
           \/ cyc.stage = "repo" /\ cyc.at = "inflight"
    /\ (cyc'.stage = "commit" /\ cyc.stage # "commit") =>
           /\ cyc.stage = "release"
           /\ cyc.at \in {"check", "inflight", "update"}
    /\ (cyc'.stage = "repo" /\ cyc.stage # "repo") => cyc.stage = "none"
    /\ (cyc.stage = "repo" /\ cyc'.repoChanged) => cache'["repo"] \in Payloads
    /\ (cyc.stage = "release" /\ cyc'.releaseChanged /\ ~cyc.releaseChanged) =>
           cache'["release"] = cyc.data

\* While the repo step runs neither later stage has been called in the cycle,
\* while the release step runs the commit stage has not; at most one call is
\* in flight.
C21_StageOrder ==
    /\ cyc.stage = "repo" => obs.calls["release"] = 0 /\ obs.calls["commit"] = 0
    /\ cyc.stage = "release" => obs.calls["commit"] = 0
    /\ Cardinality(InFlight) <= 1
    /\ \A s \in Stages : obs.calls[s] <= 1

\* C21: within one cycle the stages are attempted in strict sequence A, B, C:
\* B's eligibility check and call start only after A's call and cache update
\* have finished, C's only after B's, and no two stage calls are in flight at
\* the same time.
C21_StrictSequence == [][C21_StageStep]_vars /\ []C21_StageOrder

\* A cycle has called all three stages.
C21_Witness ==
    /\ cyc.stage = "end"
    /\ \A s \in Stages : obs.calls[s] = 1
    /\ cyc.repoChanged /\ cyc.releaseChanged

(***************************************************************************)
(* Further properties of the queue and the worker pool.                    *)
(***************************************************************************)
\* Worker w is inside dequeueReleases.
InDequeue(w) == pc[w] \in {"lock", "check", "waiting", "woken", "recheck"}

\* The steps of dequeueReleases(p.batchSize): it returns nil only with the
\* context done and otherwise a batch of at least one request; on an empty
\* queue it parks in cond.Wait(), and after a wake-up it looks at the queue
\* again.
C22_DequeueStep ==
    \A w \in Workers :
        /\ (InDequeue(w) /\ pc'[w] = "loop") => cancelled /\ batch'[w] = <<>>
        /\ (InDequeue(w) /\ pc'[w] = "process") =>
               Len(batch'[w]) >= 1 /\ pc[w] = "check"
        /\ (pc[w] = "check" /\ pc'[w] # "check" /\ items = <<>> /\ ~cancelled) =>
               pc'[w] = "waiting" /\ w \in waiters'
        /\ (pc[w] = "recheck" /\ pc'[w] # "recheck" /\ ~cancelled) =>
               pc'[w] = "check"

\* C22: dequeue (maxCount >= 1) returns an empty result only when cancellation
\* has been signalled: a worker that finds the queue empty waits, and a worker
\* woken while the queue is still empty waits again.
C22_EmptyOnlyOnCancel == [][C22_DequeueStep]_vars

\* A worker has been woken and holds the mutex, but another worker has taken
\* the requests: the queue is empty again and nothing is cancelled.
C22_Witness ==
    \E w \in Workers :
        /\ pc[w] = "recheck"
        /\ items = <<>>
        /\ ~cancelled
        /\ metrics.DequeueCount > 0

\* C23: no new dequeue after cancellation: once Stop() has signalled
\* cancellation no worker removes any further item from the queue (the items
\* queued at that moment are never handed to the persister), while a batch
\* dequeued before is still passed to the persister.
C23_NoDequeueAfterCancel ==
    [][/\ cancelled => (items' = items \/ Len(items') > Len(items))
       /\ cancelled => deqOrder' = deqOrder
       /\ \A w \in Workers :
              (pc[w] = "process" /\ pc'[w] # "process") =>
                  Range(batch[w]) \subseteq handed']_vars

\* GetProcessingCount(): p.queue.processing, read with the mutex held.
GetProcessingCount == processing

RECURSIVE HeldBy(_)
\* The number of requests in the batches the workers of S hold: dequeued, and
\* the worker has not yet ended its turn of the loop for them.
HeldBy(S) ==
    IF S = {} THEN 0
    ELSE LET w == CHOOSE x \in S : TRUE
         IN  Len(batch[w]) + HeldBy(S \ {w})

\* C24: observed under the queue mutex, the processing counter equals the
\* number of requests that have been dequeued and whose batch the owning
\* worker has not yet finished; it is never negative and it is 0 whenever no
\* worker holds a batch.
C24_ProcessingCount ==
    /\ processing >= 0
    /\ mutex = Free => GetProcessingCount = HeldBy(Workers)
    /\ (mutex = Free /\ \A w \in Workers : batch[w] = <<>>) =>
           GetProcessingCount = 0

\* Two workers hold a batch, one of them of two requests or more, and the
\* mutex is free.
C24_Witness ==
    /\ mutex = Free
    /\ \E v, w \in Workers :
           v # w /\ batch[v] # <<>> /\ Len(batch[w]) >= 2
    /\ processing >= 3

\* No request occurs twice in seq.
NoRepeat(seq) == \A i, j \in 1..Len(seq) : seq[i] = seq[j] => i = j

\* C25: conservation: in every reachable state EnqueueCount = DequeueCount +
\* len(items), and every accepted request is either still queued or has been
\* returned by exactly one dequeue call to exactly one worker: none is
\* delivered twice and none disappears.
C25_Conservation ==
    /\ metrics.EnqueueCount = metrics.DequeueCount + Len(items)
    /\ metrics.EnqueueCount = Len(enqOrder)
    /\ metrics.DequeueCount = Len(deqOrder)
    /\ enqOrder = deqOrder \o items
    /\ NoRepeat(enqOrder)
    /\ \A v, w \in Workers :
           v # w => Range(batch[v]) \cap Range(batch[w]) = {}
    /\ \A w \in Workers : Range(batch[w]) \subseteq Range(deqOrder)

\* Two workers hold batches while an accepted request is still queued.
C25_Witness ==
    /\ \E v, w \in Workers : v # w /\ batch[v] # <<>> /\ batch[w] # <<>>
    /\ items # <<>>
    /\ metrics.DequeueCount >= 2

(***************************************************************************)
(* Further properties of BatchCreate.                                      *)
(***************************************************************************)
\* The existence query of the running call has been answered without an
\* error and nothing has been written since the call began.
Filtered ==
    /\ call.requests # <<>>
    /\ ~call.dbErr
    /\ \/ call.pc = "insert" /\ call.txRows = <<>>
       \/ call.pc = "done" /\ call.newRequests = <<>>

\* C26: dedup filter: a request of the batch is dropped if and only if the
\* store already holds a record with the same hash under the same release
\* as that request; a request whose (hash, release) pair is absent from the
\* store is always kept in newRequests.
C26_DedupFilter ==
    Filtered =>
        call.newRequests = SelectSeq(call.requests, LAMBDA r : call.before[r] = 0)

\* C27: after the individual inserts the result reports as written exactly
\* the records of this batch whose insert succeeded: the number of records
\* returned equals successCount.
C27_FallbackResult ==
    (call.pc = "done" /\ call.fallback /\ ~call.err) =>
        call.responses = call.successCount

\* The individual inserts in flight: goroutines started whose c.DB.Create
\* has not returned.
InsertsInFlight == call.running

\* C28: bounded fallback concurrency: during the individual inserts at no
\* moment are more than ConcurrencyLimit (10 in the code) of them in flight,
\* whatever the size of the batch.
C28_BoundedConcurrency ==
    /\ Cardinality(InsertsInFlight) <= ConcurrencyLimit
    /\ WgCount <= ConcurrencyLimit

\* As many inserts as the limit allows are in flight, in a batch larger than
\* the limit.
C28_Witness ==
    /\ call.pc = "fallback"
    /\ Cardinality(InsertsInFlight) = ConcurrencyLimit
    /\ Len(call.newRequests) > ConcurrencyLimit

\* Every request of the running call's batch was in the store when the call
\* began (an empty batch included).
AllPresent ==
    \A i \in 1..Len(call.requests) : call.before[call.requests[i]] > 0

\* C29: when there is nothing new to write, BatchCreate attempts no insert:
\* for an empty requests list and for a batch whose every request is already
\* present it returns an empty result (written = 0) with no error and leaves
\* the store unchanged.
C29_NothingNew ==
    (call.pc = "done" /\ AllPresent /\ ~call.dbErr) =>
        /\ call.newRequests = <<>>
        /\ call.written = 0
        /\ call.responses = 0
        /\ ~call.err
        /\ store = call.before

\* The call that has returned followed, with the same batch of distinct
\* requests, a call that wrote it; no query or write failed in it and no
\* request of the batch was stored twice when it began.
SecondOfTwoCalls ==
    /\ SecondCallSameBatch
    /\ NoRepeat(call.requests)
    /\ \A i \in 1..Len(call.requests) : call.before[call.requests[i]] <= 1

\* C30: duplicate detection is best-effort under concurrency only: two
\* BatchCreate calls run one after the other on batches that share a key
\* never leave two records for one (hash, release).
C30_SequentialNoDuplicate ==
    SecondOfTwoCalls =>
        \A i \in 1..Len(call.requests) : store[call.requests[i]] <= 1

(***************************************************************************)
(* Properties of processCommits.                                           *)
(***************************************************************************)
RECURSIVE Flatten(_)
\* The smaller batches of seqs, one after the other.
Flatten(seqs) ==
    IF seqs = <<>> THEN <<>> ELSE Head(seqs) \o Flatten(Tail(seqs))

\* The number of smaller batches a batch of n commits is split into.
SmallBatches(n) == (n + SmallBatchSize - 1) \div SmallBatchSize

\* C31: degrade to smaller batches: when BatchCreate fails for a batch, the
\* commit worker splits it into consecutive smaller batches of at most
\* SmallBatchSize (10 in the code) commits that partition it, order kept, and
\* attempts every one of them exactly once, a failing one not preventing the
\* attempt of the following ones.
C31_SmallerBatches ==
    /\ \A k \in 1..Len(proc.attempted) :
           /\ Len(proc.attempted[k]) >= 1
           /\ Len(proc.attempted[k]) <= SmallBatchSize
    /\ proc.pc = "split" =>
           Flatten(proc.attempted) =
               SubSeq(proc.commits, 1, Min(proc.i, Len(proc.commits)))
    /\ (proc.pc = "done" /\ proc.commits # <<>> /\ proc.i > 0) =>
           /\ Flatten(proc.attempted) = proc.commits
           /\ Len(proc.attempted) = SmallBatches(Len(proc.commits))

\* A batch has been split into more than one smaller batch, the first of
\* which failed, and the last one has been attempted.
C31_Witness ==
    /\ proc.pc = "done"
    /\ Len(proc.attempted) >= 2
    /\ proc.errs[1]
    /\ Len(proc.attempted[Len(proc.attempted)]) < SmallBatchSize

(***************************************************************************)
(* Further properties of the coordinator.                                  *)
(***************************************************************************)
\* The step that starts a call of stage A.
RepoCallStep == cyc.stage = "none" /\ cyc'.stage = "repo"

\* The step in which a call of stage A returns a payload.
RepoFetchedStep == cyc.stage = "repo" /\ cyc'.repoChanged

UpdateStep(s) == cyc.stage = s /\ cyc.at = "update" /\ cyc' # cyc

\* What the update does when the payload counts as changed and when not.
UpdatedAsChanged(s) ==
    /\ cache'[s] = cyc.data
    /\ noChangeCount'[s] = 0
    /\ s = "release" =>
           /\ cyc'.releaseChanged
           /\ ~paused'["commit"]
           /\ noChangeCount'["commit"] = 0

UpdatedAsUnchanged(s) ==
    /\ cache'[s] = cache[s]
    /\ noChangeCount'[s] = noChangeCount[s] + 1
    /\ paused'[s] <=> noChangeCount'[s] >= stabilityThreshold
    /\ s = "release" => ~cyc'.releaseChanged /\ paused'["commit"] = paused["commit"]

\* C35 (as claimed): stage B update rule (stage C symmetric): after a
\* successful call, if the payload differs from the cached one the cache is
\* replaced, the count becomes 0, releaseChanged is set and commitPaused is
\* cleared; if it is equal the cache is kept, the count grows by exactly 1 and
\* the stage is paused exactly when the count reaches stabilityThreshold.
C35_UpdateRuleAsClaimed ==
    [][\A s \in {"release", "commit"} :
          UpdateStep(s) =>
              IF cyc.data # cache[s]
              THEN UpdatedAsChanged(s) ELSE UpdatedAsUnchanged(s)]_vars

\* C35 (amended): the payload counts as changed when the stage's cache is
\* empty or the payload differs from the cached one, and as unchanged when
\* the cache is not empty and the payload equals it.
C35_UpdateRule ==
    /\ [][\A s \in {"release", "commit"} :
             UpdateStep(s) =>
                 IF cache[s] = Nil \/ cyc.data # cache[s]
                 THEN UpdatedAsChanged(s) ELSE UpdatedAsUnchanged(s)]_vars
    /\ [](cyc.at = "update" => cyc.prevData = cache[cyc.stage])

\* An unchanged payload has paused the release stage.
C35_Witness ==
    /\ cyc.stage = "commit"
    /\ cyc.at = "check"
    /\ obs.calls["release"] = 1
    /\ paused["release"]
    /\ noChangeCount["release"] = stabilityThreshold

\* The call of stage s returns an error (a remote failure or an open circuit).
FailStep(s) == cyc.stage = s /\ cyc.at = "inflight" /\ cyc'.failed[s]

\* C36: a failed stage call changes no coordinator state: the caches, the
\* changed flags, the pause flags and the no-change counts all stay as they
\* were.
C36_FailureChangesNothing ==
    [][\A s \in Stages :
          FailStep(s) =>
              /\ cache' = cache
              /\ paused' = paused
              /\ noChangeCount' = noChangeCount
              /\ cyc'.repoChanged = cyc.repoChanged
              /\ cyc'.releaseChanged = cyc.releaseChanged
              /\ stabilityThreshold' = stabilityThreshold]_vars

\* The release call has failed in a cycle that fetched the repositories,
\* with an earlier release result and a no-change count in the caches.
C36_Witness ==
    /\ cyc.failed["release"]
    /\ cyc.repoChanged
    /\ cache["release"] # Nil
    /\ cache["repo"] # Nil
    /\ \E s \in Stages : noChangeCount[s] > 0

\* In the running cycle no stage before s has failed.
NoEarlierFailure(s) ==
    /\ s # "repo" => ~cyc.failed["repo"]
    /\ s = "commit" => ~cyc.failed["release"]

\* After a failure the later stages of the same cycle are not called.
C37_RestOfCycleSkipped ==
    /\ cyc.failed["repo"] => obs.calls["release"] = 0 /\ obs.calls["commit"] = 0
    /\ cyc.failed["release"] => obs.calls["commit"] = 0

\* A stage whose call failed in the last cycle is called in this one.
C37_NextCycleRetries ==
    cyc.stage = "end" =>
        \A s \in Stages :
            (obs.failedBefore = s /\ NoEarlierFailure(s)) => obs.calls[s] = 1

\* C37: an error in one stage prevents the remaining stages of the current
\* cycle only: if stage A fails neither B nor C is called in that cycle, if B
\* fails C is not called, and the next cycle attempts the failed stage again.
C37_ErrorIsolation ==
    /\ C37_RestOfCycleSkipped
    /\ C37_NextCycleRetries

\* C38: no cycle starts after cancellation: once the stop channel has fired
\* the periodic loop never starts CrawlAll again, also when an elapsed
\* interval is pending at the same moment (a running cycle may finish).
C38_NoCycleAfterStop ==
    [][(loop.stopped /\ loop.pc = "select") => loop'.pc # "cycle"]_vars

\* A stage has read its cache and has not yet written it.
BetweenReadAndWrite == cyc.at \in {"inflight", "read", "update"}

\* No reactivation falls between a stage's read of its cache and its write.
C39_NoReactivationInBetween ==
    [][BetweenReadAndWrite => ~ForceReactivateAll]_vars

\* The first cycle started after ForceReactivateAll returned calls stage A.
C39_NextCycleCallsRepo ==
    (cyc.stage # "none" /\ cyc.afterReactivate) => obs.calls["repo"] = 1

\* C39: a stage's call and cache mutation are atomic with respect to
\* ForceReactivateAll: no reactivation falls between a stage's read of its
\* cache and its write, so the first cycle that starts after
\* ForceReactivateAll has returned always calls stage A.
C39_AtomicStage ==
    /\ C39_NoReactivationInBetween
    /\ []C39_NextCycleCallsRepo

\* A pause of the release or of the commit stage is set.
PauseSet(s) == ~paused[s] /\ paused'[s]

====
